---- MODULE Spec2Model ----
(***************************************************************************)
(* A model of the configuration nodes of highcharts: validated property    *)
(* bags with a constructor, property getters and setters, from_dict and    *)
(* to_dict.  A node is modelled by its instance dictionary (attribute name *)
(* to value), an operation by the result it returns or the exception it    *)
(* raises.                                                                 *)
(***************************************************************************)
EXTENDS Integers, Sequences, FiniteSets, TLC

(***************************************************************************)
(* Python values.  Every value is a record [t, v]: t is the type tag.      *)
(* A str is a sequence of one-character strings, so that lower() and the   *)
(* substring test are computed.  A dict is a function from keys to values, *)
(* an object is its class name and its instance dictionary.                *)
(***************************************************************************)
PyNone == [t |-> "None", v |-> <<>>]
PyBool(b) == [t |-> "bool", v |-> b]
PyInt(n) == [t |-> "int", v |-> n]
PyFloat(n) == [t |-> "float", v |-> n]
PyStr(s) == [t |-> "str", v |-> s]
PyDict(f) == [t |-> "dict", v |-> f]
PyList(q) == [t |-> "list", v |-> q]
PyObj(c, a) == [t |-> "obj", v |-> [cls |-> c, attrs |-> a]]

PyTrue == PyBool(TRUE)
PyFalse == PyBool(FALSE)
EmptyDict == [k \in {} |-> PyNone]

\* Python truthiness: `not value` is ~Truthy(value).
Truthy(x) ==
    CASE x.t = "None" -> FALSE
      [] x.t = "bool" -> x.v
      [] x.t \in {"int", "float"} -> x.v # 0
      [] x.t = "str" -> Len(x.v) > 0
      [] x.t = "list" -> Len(x.v) > 0
      [] x.t = "dict" -> DOMAIN x.v # {}
      [] OTHER -> TRUE

\* bool(value)
bool(x) == PyBool(Truthy(x))

IsNumber(x) == x.t \in {"int", "float", "bool"}
NumVal(x) == IF x.t = "bool" THEN (IF x.v THEN 1 ELSE 0) ELSE x.v

(***************************************************************************)
(* Results and exceptions.  An operation returns [exc, val]: exc is "none" *)
(* and val the returned value, or exc is the class of the exception raised.*)
(***************************************************************************)
Ok(x) == [exc |-> "none", val |-> x]
Raise(e) == [exc |-> e, val |-> PyNone]
RaiseAt(e, x) == [exc |-> e, val |-> x]
Raised(r) == r.exc # "none"

\* `except ValueError` catches these classes.
ValueErrors == {"ValueError", "EmptyValueError", "MinimumValueError",
                "NotAnIntegerError", "HighchartsValueError"}
\* `except TypeError` catches these classes.
TypeErrors == {"TypeError", "CannotCoerceError"}

(***************************************************************************)
(* Strings.                                                                *)
(***************************************************************************)
UpperAlphabet == <<"A", "B", "C", "D", "E", "F", "G", "H", "I", "J", "K", "L", "M",
                   "N", "O", "P", "Q", "R", "S", "T", "U", "V", "W", "X", "Y", "Z">>
LowerAlphabet == <<"a", "b", "c", "d", "e", "f", "g", "h", "i", "j", "k", "l", "m",
                   "n", "o", "p", "q", "r", "s", "t", "u", "v", "w", "x", "y", "z">>

LowerChar(c) ==
    IF \E i \in DOMAIN UpperAlphabet : UpperAlphabet[i] = c
    THEN LowerAlphabet[CHOOSE i \in DOMAIN UpperAlphabet : UpperAlphabet[i] = c]
    ELSE c

\* str.lower()
lower(s) == [i \in DOMAIN s |-> LowerChar(s[i])]

\* needle in hay, for two strs
Contains(hay, needle) ==
    \E i \in 0..(Len(hay) - Len(needle)) :
        \A j \in 1..Len(needle) : hay[i + j] = needle[j]

Digits == <<"0", "1", "2", "3", "4", "5", "6", "7", "8", "9">>
IsDigit(c) == \E i \in DOMAIN Digits : Digits[i] = c
DigitVal(c) == (CHOOSE i \in DOMAIN Digits : Digits[i] = c) - 1

RECURSIVE DigitsVal(_)
DigitsVal(s) ==
    IF Len(s) = 0 THEN 0
    ELSE DigitsVal(SubSeq(s, 1, Len(s) - 1)) * 10 + DigitVal(s[Len(s)])

\* float(str) for decimal integers with an optional sign; anything else raises.
IsNumeric(s) ==
    LET body == IF Len(s) > 0 /\ s[1] = "-" THEN Tail(s) ELSE s
    IN  Len(body) > 0 /\ \A i \in DOMAIN body : IsDigit(body[i])
FloatOf(s) ==
    IF s[1] = "-" THEN 0 - DigitsVal(Tail(s)) ELSE DigitsVal(s)

(***************************************************************************)
(* validator_collection, as the setters use it.                            *)
(***************************************************************************)
\* validators.string(value, allow_empty = ..., coerce_value = False)
validators_string(value, allow_empty) ==
    IF ~Truthy(value)
    THEN IF allow_empty THEN Ok(PyNone) ELSE Raise("EmptyValueError")
    ELSE IF value.t # "str" THEN Raise("CannotCoerceError")
    ELSE Ok(value)

\* validators.numeric(value, allow_empty = ..., minimum = ...); minimum is PyNone
\* when the call gives none.
validators_numeric(value, allow_empty, minimum) ==
    IF value.t = "None"
    THEN IF allow_empty THEN Ok(PyNone) ELSE Raise("EmptyValueError")
    ELSE IF value.t = "str" /\ ~IsNumeric(value.v) THEN Raise("CannotCoerceError")
    ELSE IF value.t # "str" /\ ~IsNumber(value) THEN Raise("CannotCoerceError")
    ELSE LET n == IF value.t = "str" THEN PyFloat(FloatOf(value.v)) ELSE value
         IN  IF minimum.t # "None" /\ NumVal(n) < NumVal(minimum)
             THEN Raise("MinimumValueError")
             ELSE Ok(n)

\* validators.integer(value, allow_empty = ..., coerce_value = ..., minimum = ...).
\* Every float of the model is whole, so is_integer() holds of it; coerce_value
\* rounds up the floats that are not whole and changes nothing here.
validators_integer(value, allow_empty, coerce_value, minimum) ==
    LET r == validators_numeric(value, allow_empty, minimum)
    IN  IF Raised(r) THEN r
        ELSE IF r.val.t = "float" THEN Ok(PyInt(r.val.v))
        ELSE IF coerce_value /\ r.val.t = "bool" THEN Ok(PyInt(NumVal(r.val)))
        ELSE r

\* validators.iterable(value): a str and a number are refused
validators_iterable(value) ==
    IF ~Truthy(value) THEN Raise("EmptyValueError")
    ELSE IF value.t \in {"list", "dict"} THEN Ok(value)
    ELSE Raise("NotAnIterableError")

\* validators.dict(value, allow_empty = ...); a str is parsed as JSON, and no str
\* of the model is a JSON object.
validators_dict(value, allow_empty) ==
    IF ~Truthy(value)
    THEN IF allow_empty THEN Ok(PyNone) ELSE Raise("EmptyValueError")
    ELSE IF value.t = "str" THEN Raise("CannotCoerceError")
    ELSE IF value.t # "dict" THEN Raise("NotADictError")
    ELSE Ok(value)

(***************************************************************************)
(* Instance dictionaries and keyword arguments.                            *)
(***************************************************************************)
\* self.<attr> = value
SetAttr(self, attr, value) ==
    [a \in DOMAIN self \cup {attr} |-> IF a = attr THEN value ELSE self[a]]

\* self.<attr>, for a name that is no property of the class
GetAttr(self, attr) ==
    IF attr \in DOMAIN self THEN Ok(self[attr]) ELSE Raise("AttributeError")

\* the attribute cleared before the value is validated
Store_clearing_first(self, attr, r) ==
    IF Raised(r) THEN RaiseAt(r.exc, SetAttr(self, attr, PyNone))
    ELSE Ok(SetAttr(self, attr, r.val))

\* self.<attr> = <validated value>: the validator's exception leaves self as it is
Store(self, attr, r) ==
    IF Raised(r) THEN RaiseAt(r.exc, self) ELSE Ok(SetAttr(self, attr, r.val))

\* dict.pop(key, default), the value
pop(d, key, default) == IF key \in DOMAIN d THEN d[key] ELSE default

\* the dictionary that a run of dict.pop(key, ...) over `keys` leaves behind
Without(d, keys) == [k \in DOMAIN d \ keys |-> d[k]]

\* bool(value) of every value, None included
StoreBool_of_any(self, attr, value) == Ok(SetAttr(self, attr, bool(value)))

\* A bool-or-None setter: if value is None: None, else bool(value)
StoreBool(self, attr, value) ==
    IF value.t = "None" THEN Ok(SetAttr(self, attr, PyNone))
    ELSE Ok(SetAttr(self, attr, bool(value)))

(***************************************************************************)
(* The dictionary display of to_dict and _to_untrimmed_dict.               *)
(***************************************************************************)
\* key: value joins the display, unless reading value raises
build_next(before, item) ==
    IF Raised(before) THEN before
    ELSE IF Raised(item[2]) THEN item[2]
    ELSE Ok(PyDict(SetAttr(before.val.v, item[1], item[2].val)))

\* A dictionary display {key: self.<name>, ...}: `items` is the sequence of
\* <<key, self.<name>>>; the first getter that raises ends it.
build_dict(items) ==
    LET upto[i \in 0..Len(items)] ==
            IF i = 0 THEN Ok(PyDict(EmptyDict)) ELSE build_next(upto[i - 1], items[i])
    IN  upto[Len(items)]

(***************************************************************************)
(* HighchartsMeta and the decorators: the base class of every node.        *)
(***************************************************************************)
\* @class_sensitive(cls): an instance of cls is stored as it is, a dict goes
\* through cls.from_dict, None stays None, anything else is refused.
\* from_dict_value is cls.from_dict(value): it is looked at for a dict only.
class_sensitive(cls, value, from_dict_value) ==
    CASE value.t = "None" -> Ok(PyNone)
      [] value.t = "obj" /\ value.v.cls = cls -> Ok(value)
      [] value.t = "dict" ->
           IF Raised(from_dict_value) THEN Raise(from_dict_value.exc)
           ELSE Ok(PyObj(cls, from_dict_value.val))
      [] OTHER -> Raise("HighchartsValueError")

\* self.<attr> = value under @class_sensitive(cls)
StoreNode(self, attr, cls, value, from_dict_value) ==
    Store(self, attr, class_sensitive(cls, value, from_dict_value))

\* The node classes that the source imports and does not define: a node of such
\* a class holds the dictionary it was built from.
ImportedClasses == {"BreadcrumbEvents", "Position", "Gradient", "Pattern",
                    "ShadowOptions", "DataLabel", "DragDropOptions"}
Imported_from_dict(as_dict) == Ok([_fields |-> PyDict(as_dict)])

(***************************************************************************)
(* The string literals of the source.                                      *)
(***************************************************************************)
str_plot == <<"p", "l", "o", "t">>
str_chart == <<"c", "h", "a", "r", "t">>
str_plotBox == <<"p", "l", "o", "t", "B", "o", "x">>
str_spacingBox == <<"s", "p", "a", "c", "i", "n", "g", "B", "o", "x">>
str_normal == <<"n", "o", "r", "m", "a", "l">>
str_serialize == <<"s", "e", "r", "i", "a", "l", "i", "z", "e">>
str_percent == <<"%">>
str_round == <<"r", "o", "u", "n", "d">>
str_linearGradient == <<"l", "i", "n", "e", "a", "r", "G", "r", "a", "d", "i", "e", "n", "t">>
str_patternOptions == <<"p", "a", "t", "t", "e", "r", "n", "O", "p", "t", "i", "o", "n", "s">>
str_y == <<"y">>

(***************************************************************************)
(* Separator                                                               *)
(***************************************************************************)
Separator_set(self, name, value) ==
    CASE name = "style" -> Store(self, "_style", validators_dict(value, FALSE))
      [] name = "text" -> Store(self, "_text", validators_string(value, TRUE))
      [] OTHER -> Ok(SetAttr(self, name, value))

Separator_get(self, name) ==
    CASE name = "style" -> GetAttr(self, "_style")
      [] name = "text" -> GetAttr(self, "_text")
      [] OTHER -> GetAttr(self, name)

Separator_init(kwargs) ==
    LET pairs ==
            << <<"style", pop(kwargs, "style", PyNone)>>,
               <<"text", pop(kwargs, "text", PyNone)>> >>
        assign(before, pair) ==
            IF Raised(before) THEN before
            ELSE Separator_set(before.val, pair[1], pair[2])
        after[i \in 0..Len(pairs)] ==
            IF i = 0
            THEN Ok([_style |-> PyNone, _text |-> PyNone])
            ELSE assign(after[i - 1], pairs[i])
    IN  after[Len(pairs)]

Separator_from_dict(as_dict) ==
    Separator_init([style |-> pop(as_dict, "style", PyNone),
                    text |-> pop(as_dict, "text", PyNone)])

Separator_to_untrimmed_dict(self) ==
    build_dict(<< <<"style", Separator_get(self, "style")>>,
                  <<"text", Separator_get(self, "text")>> >>)

(***************************************************************************)
(* Gradient and Pattern, and the colour setters of DialOptions and         *)
(* PivotOptions.                                                           *)
(***************************************************************************)
\* cls.from_json(value): a dict is no JSON text and no str of the model is one,
\* so the parse fails with a ValueError.
from_json(cls, value) == Raise("ValueError")

\* Gradient(**value), Pattern(**value): the node holds the keyword arguments.
Imported_init(kwargs) == Ok([_fields |-> PyDict(kwargs)])

\* key in value, for a dict or a str
In(key, str_key, value) ==
    CASE value.t = "dict" -> key \in DOMAIN value.v
      [] value.t = "str" -> Contains(value.v, str_key)
      [] OTHER -> FALSE

\* the literal kept as it was given, no node built from it
color_from_literal_raw(cls, value) == Ok(value)

\* try: cls.from_json(value)
\* except ValueError: cls.from_dict(value) for a dict, validators.string(value) for a str
color_from_literal(cls, value) ==
    LET r == from_json(cls, value)
    IN  IF ~Raised(r) THEN Ok(PyObj(cls, r.val))
        ELSE IF r.exc \notin ValueErrors THEN r
        ELSE IF value.t = "dict"
             THEN LET n == Imported_from_dict(value.v)
                  IN  IF Raised(n) THEN n ELSE Ok(PyObj(cls, n.val))
             ELSE validators_string(value, FALSE)

\* the colour setter that stores what it cannot resolve
color_setter_storing_any(self, attr, value) ==
    IF ~Truthy(value) THEN Ok(SetAttr(self, attr, PyNone))
    ELSE IF In("linearGradient", str_linearGradient, value)
         THEN Store(self, attr, color_from_literal("Gradient", value))
    ELSE IF In("patternOptions", str_patternOptions, value)
         THEN Store(self, attr, color_from_literal("Pattern", value))
    ELSE Ok(SetAttr(self, attr, value))

\* the colour setter that looks for the pattern marker first
color_setter_pattern_first(self, attr, value) ==
    IF ~Truthy(value) THEN Ok(SetAttr(self, attr, PyNone))
    ELSE IF value.t = "obj" /\ value.v.cls \in {"Gradient", "Pattern"}
         THEN Ok(SetAttr(self, attr, value))
    ELSE IF In("patternOptions", str_patternOptions, value)
         THEN Store(self, attr, color_from_literal("Pattern", value))
    ELSE IF In("linearGradient", str_linearGradient, value)
         THEN Store(self, attr, color_from_literal("Gradient", value))
    ELSE RaiseAt("HighchartsValueError", self)

\* The setters of background_color and border_color, the same text four times:
\* `attr` is the attribute the setter assigns.
color_setter(self, attr, value) ==
    IF ~Truthy(value) THEN Ok(SetAttr(self, attr, PyNone))
    ELSE IF value.t = "obj" /\ value.v.cls \in {"Gradient", "Pattern"}
         THEN Ok(SetAttr(self, attr, value))
    ELSE IF In("linearGradient", str_linearGradient, value)
         THEN Store(self, attr, color_from_literal("Gradient", value))
    ELSE IF value.t = "dict" /\ "linear_gradient" \in DOMAIN value.v
         THEN LET n == Imported_init(value.v)
              IN  Ok(SetAttr(self, attr, PyObj("Gradient", n.val)))
    ELSE IF In("patternOptions", str_patternOptions, value)
         THEN Store(self, attr, color_from_literal("Pattern", value))
    ELSE IF value.t = "dict" /\ "pattern_options" \in DOMAIN value.v
         THEN LET n == Imported_init(value.v)
              IN  Ok(SetAttr(self, attr, PyObj("Pattern", n.val)))
    ELSE RaiseAt("HighchartsValueError", self)

(***************************************************************************)
(* DialOptions                                                             *)
(***************************************************************************)
\* the percentage setter that stores the string without its '%'
percentage_string_without_marker(self, attr, value) ==
    LET r == validators_string(value, FALSE)
    IN  IF Raised(r) THEN RaiseAt(r.exc, self)
        ELSE IF ~Contains(r.val.v, str_percent)
             THEN RaiseAt("HighchartsValueError", self)
             ELSE Ok(SetAttr(self, attr, PyStr(SelectSeq(r.val.v, LAMBDA c : c # "%"))))

\* value = validators.string(value); '%' must be in it
percentage_string(self, attr, value) ==
    LET r == validators_string(value, FALSE)
    IN  IF Raised(r) THEN RaiseAt(r.exc, self)
        ELSE IF ~Contains(r.val.v, str_percent)
             THEN RaiseAt("HighchartsValueError", self)
             ELSE Ok(SetAttr(self, attr, r.val))

DialOptions_set_base_length(self, value) ==
    IF value.t = "None" THEN Ok(SetAttr(self, "_base_length", PyNone))
    ELSE percentage_string(self, "_base_length", value)

DialOptions_set_radius(self, value) ==
    IF ~Truthy(value) THEN Ok(SetAttr(self, "_radius", PyNone))
    ELSE percentage_string(self, "_radius", value)

DialOptions_set_rear_length(self, value) ==
    IF ~Truthy(value) THEN Ok(SetAttr(self, "_rear_length", PyNone))
    ELSE percentage_string(self, "_rear_length", value)

DialOptions_set_path(self, value) ==
    IF ~Truthy(value) THEN Ok(SetAttr(self, "_path", PyNone))
    ELSE Store(self, "_path", validators_iterable(value))

\* validators.numeric(value, minimum = 0): allow_empty is left at its default
DialOptions_set_top_width(self, value) ==
    Store(self, "_top_width", validators_numeric(value, FALSE, PyInt(0)))

DialOptions_set(self, name, value) ==
    CASE name = "background_color" -> color_setter(self, "_background_color", value)
      [] name = "base_length" -> DialOptions_set_base_length(self, value)
      [] name = "base_width" ->
           Store(self, "_base_width", validators_numeric(value, TRUE, PyInt(0)))
      [] name = "border_color" -> color_setter(self, "_border_color", value)
      [] name = "border_width" ->
           Store(self, "_border_width", validators_numeric(value, TRUE, PyInt(0)))
      [] name = "path" -> DialOptions_set_path(self, value)
      [] name = "radius" -> DialOptions_set_radius(self, value)
      [] name = "rear_length" -> DialOptions_set_rear_length(self, value)
      [] name = "top_width" -> DialOptions_set_top_width(self, value)
      [] OTHER -> Ok(SetAttr(self, name, value))

DialOptions_get(self, name) ==
    CASE name = "background_color" -> GetAttr(self, "_background_color")
      [] name = "base_length" -> GetAttr(self, "_base_length")
      [] name = "base_width" -> GetAttr(self, "_base_width")
      [] name = "border_color" -> GetAttr(self, "_border_color")
      [] name = "border_width" -> GetAttr(self, "_border_width")
      [] name = "path" -> GetAttr(self, "_path")
      [] name = "radius" -> GetAttr(self, "_radius")
      [] name = "rear_length" -> GetAttr(self, "_rear_length")
      [] name = "top_width" -> GetAttr(self, "_top_width")
      [] OTHER -> GetAttr(self, name)

DialOptions_init(kwargs) ==
    LET pairs ==
            << <<"background_color", pop(kwargs, "background_color", PyNone)>>,
               <<"base_length", pop(kwargs, "base_length", PyNone)>>,
               <<"base_width", pop(kwargs, "base_width", PyNone)>>,
               <<"border_color", pop(kwargs, "border_color", PyNone)>>,
               <<"border_width", pop(kwargs, "border_width", PyNone)>>,
               <<"path", pop(kwargs, "path", PyNone)>>,
               <<"radius", pop(kwargs, "radius", PyNone)>>,
               <<"rear_length", pop(kwargs, "rear_length", PyNone)>>,
               <<"top_width", pop(kwargs, "top_width", PyNone)>> >>
        assign(before, pair) ==
            IF Raised(before) THEN before
            ELSE DialOptions_set(before.val, pair[1], pair[2])
        after[i \in 0..Len(pairs)] ==
            IF i = 0
            THEN Ok([_background_color |-> PyNone, _base_length |-> PyNone,
                     _base_width |-> PyNone, _border_color |-> PyNone,
                     _border_width |-> PyNone, _path |-> PyNone, _radius |-> PyNone,
                     _rear_length |-> PyNone, _top_width |-> PyNone])
            ELSE assign(after[i - 1], pairs[i])
    IN  after[Len(pairs)]

DialOptions_from_dict(as_dict) ==
    DialOptions_init([background_color |-> pop(as_dict, "backgroundColor", PyNone),
                      base_length |-> pop(as_dict, "baseLength", PyNone),
                      base_width |-> pop(as_dict, "baseWidth", PyNone),
                      border_color |-> pop(as_dict, "borderColor", PyNone),
                      border_width |-> pop(as_dict, "borderWidth", PyNone),
                      path |-> pop(as_dict, "path", PyNone),
                      radius |-> pop(as_dict, "radius", PyNone),
                      rear_length |-> pop(as_dict, "rearLength", PyNone),
                      top_width |-> pop(as_dict, "topWidth", PyNone)])

\* the dictionary that DialOptions.to_dict hands to trim_dict
DialOptions_untrimmed(self) ==
    build_dict(<< <<"backgroundColor", DialOptions_get(self, "background_color")>>,
                  <<"baseLength", DialOptions_get(self, "base_length")>>,
                  <<"baseWidth", DialOptions_get(self, "base_width")>>,
                  <<"borderColor", DialOptions_get(self, "border_color")>>,
                  <<"borderWidth", DialOptions_get(self, "border_width")>>,
                  <<"path", DialOptions_get(self, "path")>>,
                  <<"radius", DialOptions_get(self, "radius")>>,
                  <<"rearLength", DialOptions_get(self, "rear_length")>>,
                  <<"topWidth", DialOptions_get(self, "top_width")>> >>)

(***************************************************************************)
(* PivotOptions                                                            *)
(***************************************************************************)
PivotOptions_set(self, name, value) ==
    CASE name = "background_color" -> color_setter(self, "_background_color", value)
      [] name = "border_color" -> color_setter(self, "_border_color", value)
      [] name = "border_width" ->
           Store(self, "_border_width", validators_numeric(value, TRUE, PyInt(0)))
      [] name = "radius" -> Store(self, "_radius", validators_numeric(value, TRUE, PyNone))
      [] OTHER -> Ok(SetAttr(self, name, value))

PivotOptions_get(self, name) ==
    CASE name = "background_color" -> GetAttr(self, "_background_color")
      [] name = "border_color" -> GetAttr(self, "_border_color")
      [] name = "border_width" -> GetAttr(self, "_border_width")
      [] name = "radius" -> GetAttr(self, "_radius")
      [] OTHER -> GetAttr(self, name)

PivotOptions_init(kwargs) ==
    LET pairs ==
            << <<"background_color", pop(kwargs, "background_color", PyNone)>>,
               <<"border_color", pop(kwargs, "border_color", PyNone)>>,
               <<"border_width", pop(kwargs, "border_width", PyNone)>>,
               <<"radius", pop(kwargs, "radius", PyNone)>> >>
        assign(before, pair) ==
            IF Raised(before) THEN before
            ELSE PivotOptions_set(before.val, pair[1], pair[2])
        after[i \in 0..Len(pairs)] ==
            IF i = 0
            THEN Ok([_background_color |-> PyNone, _border_color |-> PyNone,
                     _border_width |-> PyNone, _radius |-> PyNone])
            ELSE assign(after[i - 1], pairs[i])
    IN  after[Len(pairs)]

PivotOptions_from_dict(as_dict) ==
    PivotOptions_init([background_color |-> pop(as_dict, "backgroundColor", PyNone),
                       border_color |-> pop(as_dict, "borderColor", PyNone),
                       border_width |-> pop(as_dict, "borderWidth", PyNone),
                       radius |-> pop(as_dict, "radius", PyNone)])

\* the dictionary that PivotOptions.to_dict hands to trim_dict
PivotOptions_untrimmed(self) ==
    build_dict(<< <<"backgroundColor", PivotOptions_get(self, "background_color")>>,
                  <<"borderColor", PivotOptions_get(self, "border_color")>>,
                  <<"borderWidth", PivotOptions_get(self, "border_width")>>,
                  <<"radius", PivotOptions_get(self, "radius")>> >>)

(***************************************************************************)
(* HighchartsMeta.trim_dict and to_dict of the nested nodes.               *)
(***************************************************************************)
\* The dictionary that value.to_dict() hands to trim_dict, for a node held by a
\* property: the classes that are nested.
node_to_untrimmed_dict(cls, self) ==
    CASE cls = "Separator" -> Separator_to_untrimmed_dict(self)
      [] cls = "DialOptions" -> DialOptions_untrimmed(self)
      [] cls = "PivotOptions" -> PivotOptions_untrimmed(self)
      [] cls \in ImportedClasses -> Ok(self["_fields"])

\* What trim_value returns for a value that is left out of the dictionary.
Dropped == [t |-> "dropped", v |-> <<>>]

\* What is left of a trimmed collection: nothing when it is empty.
unless_empty(r) ==
    IF Raised(r) THEN r ELSE IF ~Truthy(r.val) THEN Ok(Dropped) ELSE r

\* One key of trim_dict: the trimmed item joins the rest unless it is dropped.
trim_item(key, item, rest) ==
    IF Raised(item) THEN item
    ELSE IF Raised(rest) THEN rest
    ELSE IF item.val = Dropped THEN rest
    ELSE Ok(PyDict(SetAttr(rest.val.v, key, item.val)))

\* HighchartsMeta.trim_dict: the dictionary without its empty values (None, the
\* empty str, the empty collections); False and 0 are values and stay; a nested
\* node is lowered by its own to_dict.
RECURSIVE trim_dict(_)
RECURSIVE trim_value(_)
RECURSIVE trim_key(_, _)
RECURSIVE trim_untrimmed(_)
trim_value(x) ==
    CASE x.t = "bool" -> Ok(x)
      [] x.t = "None" -> Ok(Dropped)
      [] x.t = "obj" ->
           unless_empty(trim_untrimmed(node_to_untrimmed_dict(x.v.cls, x.v.attrs)))
      [] x.t = "dict" -> unless_empty(trim_dict(x.v))
      [] x.t \in {"str", "list"} -> IF Truthy(x) THEN Ok(x) ELSE Ok(Dropped)
      [] OTHER -> Ok(x)

trim_key(untrimmed, key) ==
    trim_item(key, trim_value(untrimmed[key]), trim_dict(Without(untrimmed, {key})))

trim_dict(untrimmed) ==
    IF DOMAIN untrimmed = {} THEN Ok(PyDict(EmptyDict))
    ELSE trim_key(untrimmed, CHOOSE k \in DOMAIN untrimmed : TRUE)

\* self.trim_dict(untrimmed), where building untrimmed may have raised
trim_untrimmed(untrimmed) ==
    IF Raised(untrimmed) THEN untrimmed ELSE trim_dict(untrimmed.val.v)

Imported_to_dict(self) == trim_dict(self["_fields"].v)

\* to_dict that returns the untrimmed dictionary
DialOptions_to_dict_untrimmed(self) ==
    build_dict(<< <<"backgroundColor", DialOptions_get(self, "background_color")>>,
                  <<"baseLength", DialOptions_get(self, "base_length")>>,
                  <<"baseWidth", DialOptions_get(self, "base_width")>>,
                  <<"borderColor", DialOptions_get(self, "border_color")>>,
                  <<"borderWidth", DialOptions_get(self, "border_width")>>,
                  <<"path", DialOptions_get(self, "path")>>,
                  <<"radius", DialOptions_get(self, "radius")>>,
                  <<"rearLength", DialOptions_get(self, "rear_length")>>,
                  <<"topWidth", DialOptions_get(self, "top_width")>> >>)

DialOptions_to_dict(self) ==
    LET untrimmed == DialOptions_untrimmed(self)
    IN  IF Raised(untrimmed) THEN untrimmed ELSE trim_dict(untrimmed.val.v)

PivotOptions_to_dict(self) ==
    LET untrimmed == PivotOptions_untrimmed(self)
    IN  IF Raised(untrimmed) THEN untrimmed ELSE trim_dict(untrimmed.val.v)

(***************************************************************************)
(* Loading                                                                 *)
(***************************************************************************)
\* the durations without a minimum
Loading_set_without_minimum(self, name, value) ==
    CASE name = "hide_duration" ->
           Store(self, "_hide_duration", validators_integer(value, TRUE, FALSE, PyNone))
      [] name = "label_style" ->
           Store(self, "_label_style", validators_string(value, TRUE))
      [] name = "show_duration" ->
           Store(self, "_show_duration", validators_integer(value, TRUE, FALSE, PyNone))
      [] name = "style" ->
           Store(self, "_style", validators_string(value, TRUE))
      [] OTHER -> Ok(SetAttr(self, name, value))

Loading_set(self, name, value) ==
    CASE name = "hide_duration" ->
           Store(self, "_hide_duration", validators_integer(value, TRUE, FALSE, PyInt(0)))
      [] name = "label_style" ->
           Store(self, "_label_style", validators_string(value, TRUE))
      [] name = "show_duration" ->
           Store(self, "_show_duration", validators_integer(value, TRUE, FALSE, PyInt(0)))
      [] name = "style" ->
           Store(self, "_style", validators_string(value, TRUE))
      [] OTHER -> Ok(SetAttr(self, name, value))

Loading_get(self, name) ==
    CASE name = "hide_duration" -> GetAttr(self, "_hide_duration")
      [] name = "label_style" -> GetAttr(self, "_label_style")
      [] name = "show_duration" -> GetAttr(self, "_show_duration")
      [] name = "style" -> GetAttr(self, "_style")
      [] OTHER -> GetAttr(self, name)

Loading_init(kwargs) ==
    LET pairs ==
            << <<"hide_duration", pop(kwargs, "hide_duration", PyNone)>>,
               <<"label_style", pop(kwargs, "label_style", PyNone)>>,
               <<"show_duration", pop(kwargs, "show_duration", PyNone)>>,
               <<"style", pop(kwargs, "style", PyNone)>> >>
        assign(before, pair) ==
            IF Raised(before) THEN before
            ELSE Loading_set(before.val, pair[1], pair[2])
        after[i \in 0..Len(pairs)] ==
            IF i = 0
            THEN Ok([_hide_duration |-> PyNone, _label_style |-> PyNone,
                     _show_duration |-> PyNone, _style |-> PyNone])
            ELSE assign(after[i - 1], pairs[i])
    IN  after[Len(pairs)]

\* from_dict with 'style' read under the key of label_style
Loading_from_dict_style_from_labelStyle(as_dict) ==
    Loading_init([hide_duration |-> pop(as_dict, "hideDuration", PyNone),
                  label_style |-> pop(as_dict, "labelStyle", PyNone),
                  show_duration |-> pop(as_dict, "showDuration", PyNone),
                  style |-> pop(Without(as_dict, {"labelStyle"}), "labelStyle", PyNone)])

Loading_from_dict(as_dict) ==
    Loading_init([hide_duration |-> pop(as_dict, "hideDuration", PyNone),
                  label_style |-> pop(as_dict, "labelStyle", PyNone),
                  show_duration |-> pop(as_dict, "showDuration", PyNone),
                  style |-> pop(as_dict, "style", PyNone)])

Loading_to_untrimmed_dict(self) ==
    build_dict(<< <<"hideDuration", Loading_get(self, "hide_duration")>>,
                  <<"labelStyle", Loading_get(self, "label_style")>>,
                  <<"showDuration", Loading_get(self, "show_duration")>>,
                  <<"style", Loading_get(self, "style")>> >>)

(***************************************************************************)
(* ZoomLanguageOptions                                                     *)
(***************************************************************************)
ZoomLanguageOptions_set(self, name, value) ==
    CASE name = "map_zoom_in" ->
           Store(self, "_map_zoom_in", validators_string(value, TRUE))
      [] name = "map_zoom_out" ->
           Store(self, "_map_zoom_out", validators_string(value, TRUE))
      [] name = "reset_zoom_button" ->
           Store(self, "_reset_zoom_button", validators_string(value, TRUE))
      [] OTHER -> Ok(SetAttr(self, name, value))

ZoomLanguageOptions_get(self, name) ==
    CASE name = "map_zoom_in" -> GetAttr(self, "_map_zoom_in")
      [] name = "map_zoom_out" -> GetAttr(self, "_map_zoom_out")
      [] name = "reset_zoom_button" -> GetAttr(self, "_reset_zoom_button")
      [] OTHER -> GetAttr(self, name)

ZoomLanguageOptions_init(kwargs) ==
    LET pairs ==
            << <<"map_zoom_in", pop(kwargs, "map_zoom_in", PyNone)>>,
               <<"map_zoom_out", pop(kwargs, "map_zoom_out", PyNone)>>,
               <<"reset_zoom_button", pop(kwargs, "reset_zoom_button", PyNone)>> >>
        assign(before, pair) ==
            IF Raised(before) THEN before
            ELSE ZoomLanguageOptions_set(before.val, pair[1], pair[2])
        after[i \in 0..Len(pairs)] ==
            IF i = 0
            THEN Ok([_map_zoom_in |-> PyNone, _map_zoom_out |-> PyNone,
                     _reset_zoom_button |-> PyNone])
            ELSE assign(after[i - 1], pairs[i])
    IN  after[Len(pairs)]

\* from_dict that refuses a key it does not read
ZoomLanguageOptions_from_dict_strict(as_dict) ==
    IF DOMAIN as_dict \subseteq {"mapZoomIn", "mapZoomOut", "resetZoomButton"}
    THEN ZoomLanguageOptions_init(
             [map_zoom_in |-> pop(as_dict, "mapZoomIn", PyNone),
              map_zoom_out |-> pop(as_dict, "mapZoomOut", PyNone),
              reset_zoom_button |-> pop(as_dict, "resetZoomButton", PyNone)])
    ELSE Raise("TypeError")

ZoomLanguageOptions_from_dict(as_dict) ==
    ZoomLanguageOptions_init(
        [map_zoom_in |-> pop(as_dict, "mapZoomIn", PyNone),
         map_zoom_out |-> pop(as_dict, "mapZoomOut", PyNone),
         reset_zoom_button |-> pop(as_dict, "resetZoomButton", PyNone)])

ZoomLanguageOptions_to_untrimmed_dict(self) ==
    build_dict(<< <<"mapZoomIn", ZoomLanguageOptions_get(self, "map_zoom_in")>>,
                  <<"mapZoomOut", ZoomLanguageOptions_get(self, "map_zoom_out")>>,
                  <<"resetZoomButton",
                    ZoomLanguageOptions_get(self, "reset_zoom_button")>> >>)

(***************************************************************************)
(* RangeSelectorLanguageOptions                                            *)
(***************************************************************************)
RangeSelectorLanguageOptions_set(self, name, value) ==
    CASE name = "click_button_announcement" ->
           Store(self, "_click_button_announcement", validators_string(value, TRUE))
      [] name = "dropdown_label" ->
           Store(self, "_dropdown_label", validators_string(value, TRUE))
      [] name = "max_input_label" ->
           Store(self, "_max_input_label", validators_string(value, TRUE))
      [] name = "min_input_label" ->
           Store(self, "_min_input_label", validators_string(value, TRUE))
      [] OTHER -> Ok(SetAttr(self, name, value))

RangeSelectorLanguageOptions_get(self, name) ==
    CASE name = "click_button_announcement" -> GetAttr(self, "_click_button_announcement")
      [] name = "dropdown_label" -> GetAttr(self, "_dropdown_label")
      [] name = "max_input_label" -> GetAttr(self, "_max_input_label")
      [] name = "min_input_label" -> GetAttr(self, "_min_input_label")
      [] OTHER -> GetAttr(self, name)

RangeSelectorLanguageOptions_init(kwargs) ==
    LET pairs ==
            << <<"click_button_announcement",
                 pop(kwargs, "click_button_announcement", PyNone)>>,
               <<"dropdown_label", pop(kwargs, "dropdown_label", PyNone)>>,
               <<"max_input_label", pop(kwargs, "max_input_label", PyNone)>>,
               <<"min_input_label", pop(kwargs, "min_input_label", PyNone)>> >>
        assign(before, pair) ==
            IF Raised(before) THEN before
            ELSE RangeSelectorLanguageOptions_set(before.val, pair[1], pair[2])
        after[i \in 0..Len(pairs)] ==
            IF i = 0
            THEN Ok([_click_button_announcement |-> PyNone, _dropdown_label |-> PyNone,
                     _max_input_label |-> PyNone, _min_input_label |-> PyNone])
            ELSE assign(after[i - 1], pairs[i])
    IN  after[Len(pairs)]

RangeSelectorLanguageOptions_from_dict(as_dict) ==
    RangeSelectorLanguageOptions_init(
        [click_button_announcement |-> pop(as_dict, "clickButtonAnnouncement", PyNone),
         dropdown_label |-> pop(as_dict, "dropdownLabel", PyNone),
         max_input_label |-> pop(as_dict, "maxInputLabel", PyNone),
         min_input_label |-> pop(as_dict, "minInputLabel", PyNone)])

RangeSelectorLanguageOptions_to_untrimmed_dict(self) ==
    build_dict(<< <<"clickButtonAnnouncement",
                    RangeSelectorLanguageOptions_get(self, "click_button_announcement")>>,
                  <<"dropdownLabel",
                    RangeSelectorLanguageOptions_get(self, "dropdown_label")>>,
                  <<"maxInputLabel",
                    RangeSelectorLanguageOptions_get(self, "max_input_label")>>,
                  <<"minInputLabel",
                    RangeSelectorLanguageOptions_get(self, "min_input_label")>> >>)

(***************************************************************************)
(* DataPointAccessibility                                                  *)
(***************************************************************************)
DataPointAccessibility_set(self, name, value) ==
    CASE name = "description" ->
           Store(self, "_description", validators_string(value, TRUE))
      [] name = "enabled" -> StoreBool(self, "_enabled", value)
      [] OTHER -> Ok(SetAttr(self, name, value))

DataPointAccessibility_get(self, name) ==
    CASE name = "description" -> GetAttr(self, "_description")
      [] name = "enabled" -> GetAttr(self, "_enabled")
      [] OTHER -> GetAttr(self, name)

DataPointAccessibility_init(kwargs) ==
    LET pairs ==
            << <<"description", pop(kwargs, "description", PyNone)>>,
               <<"enabled", pop(kwargs, "enabled", PyNone)>> >>
        assign(before, pair) ==
            IF Raised(before) THEN before
            ELSE DataPointAccessibility_set(before.val, pair[1], pair[2])
        after[i \in 0..Len(pairs)] ==
            IF i = 0
            THEN Ok([_description |-> PyNone, _enabled |-> PyNone])
            ELSE assign(after[i - 1], pairs[i])
    IN  after[Len(pairs)]

DataPointAccessibility_from_dict(as_dict) ==
    DataPointAccessibility_init([description |-> pop(as_dict, "description", PyNone),
                                 enabled |-> pop(as_dict, "enabled", PyNone)])

DataPointAccessibility_to_untrimmed_dict(self) ==
    build_dict(<< <<"description", DataPointAccessibility_get(self, "description")>>,
                  <<"enabled", DataPointAccessibility_get(self, "enabled")>> >>)

(***************************************************************************)
(* BreadcrumbOptions                                                       *)
(***************************************************************************)
\* the list that the relative_to setters test the lowered value against
relative_to_accepted == {str_plot, str_chart, str_plotBox, str_spacingBox}

BreadcrumbOptions_set_relative_to(self, value) ==
    IF ~Truthy(value) THEN Ok(SetAttr(self, "_relative_to", PyNone))
    ELSE LET r == validators_string(value, FALSE)
         IN  IF Raised(r) THEN RaiseAt(r.exc, self)
             ELSE IF lower(r.val.v) \notin relative_to_accepted
                  THEN RaiseAt("HighchartsValueError", self)
                  ELSE Ok(SetAttr(self, "_relative_to", PyStr(lower(r.val.v))))

\* value = validators.integer(value, allow_empty = True): the validated value is
\* bound to the local name and the instance is left as it was.
BreadcrumbOptions_set_z_index(self, value) ==
    LET r == validators_integer(value, TRUE, FALSE, PyNone)
    IN  IF Raised(r) THEN RaiseAt(r.exc, self) ELSE Ok(self)

BreadcrumbOptions_set(self, name, value) ==
    CASE name = "button_spacing" ->
           Store(self, "_button_spacing", validators_numeric(value, TRUE, PyNone))
      [] name = "button_theme" -> Store(self, "_theme", validators_dict(value, TRUE))
      [] name = "events" -> StoreNode(self, "_events", "BreadcrumbEvents", value,
                                      Imported_from_dict(value.v))
      [] name = "floating" -> StoreBool(self, "_floating", value)
      [] name = "format" -> Store(self, "_format", validators_string(value, TRUE))
      [] name = "formatter" -> Store(self, "_formatter", validators_string(value, TRUE))
      [] name = "position" -> StoreNode(self, "_position", "Position", value,
                                        Imported_from_dict(value.v))
      [] name = "relative_to" -> BreadcrumbOptions_set_relative_to(self, value)
      [] name = "rtl" -> StoreBool(self, "_rtl", value)
      [] name = "separator" -> StoreNode(self, "_separator", "Separator", value,
                                         Separator_from_dict(value.v))
      [] name = "show_full_path" -> StoreBool(self, "_show_full_path", value)
      [] name = "style" -> Store(self, "_style", validators_dict(value, TRUE))
      [] name = "use_html" -> StoreBool(self, "_use_html", value)
      [] name = "z_index" -> BreadcrumbOptions_set_z_index(self, value)
      [] OTHER -> Ok(SetAttr(self, name, value))

BreadcrumbOptions_get(self, name) ==
    CASE name = "button_spacing" -> GetAttr(self, "_button_spacing")
      [] name = "button_theme" -> GetAttr(self, "_theme")
      [] name = "events" -> GetAttr(self, "_events")
      [] name = "floating" -> GetAttr(self, "_floating")
      [] name = "format" -> GetAttr(self, "_format")
      [] name = "formatter" -> GetAttr(self, "_formatter")
      [] name = "position" -> GetAttr(self, "_position")
      [] name = "relative_to" -> GetAttr(self, "_relative_to")
      [] name = "rtl" -> GetAttr(self, "_rtl")
      [] name = "separator" -> GetAttr(self, "_separator")
      [] name = "show_full_path" -> GetAttr(self, "_show_full_path")
      [] name = "style" -> GetAttr(self, "_style")
      [] name = "use_html" -> GetAttr(self, "_use_html")
      [] name = "z_index" -> GetAttr(self, "_z_index")
      [] OTHER -> GetAttr(self, name)

BreadcrumbOptions_init(kwargs) ==
    LET pairs ==
            << <<"button_spacing", pop(kwargs, "button_spacing", PyNone)>>,
               <<"button_theme", pop(kwargs, "button_theme", PyNone)>>,
               <<"events", pop(kwargs, "events", PyNone)>>,
               <<"floating", pop(kwargs, "floating", PyNone)>>,
               <<"format", pop(kwargs, "format", PyNone)>>,
               <<"formatter", pop(kwargs, "formatter", PyNone)>>,
               <<"position", pop(kwargs, "position", PyNone)>>,
               <<"relative_to", pop(kwargs, "relative_to", PyNone)>>,
               <<"rtl", pop(kwargs, "rtl", PyNone)>>,
               <<"separator", pop(kwargs, "separator", PyNone)>>,
               <<"show_full_path", pop(kwargs, "show_full_path", PyNone)>>,
               <<"style", pop(kwargs, "style", PyNone)>>,
               <<"use_html", pop(kwargs, "use_html", PyNone)>>,
               <<"z_index", pop(kwargs, "z_index", PyNone)>> >>
        assign(before, pair) ==
            IF Raised(before) THEN before
            ELSE BreadcrumbOptions_set(before.val, pair[1], pair[2])
        after[i \in 0..Len(pairs)] ==
            IF i = 0
            THEN Ok([_button_spacing |-> PyNone, _button_theme |-> PyNone,
                     _events |-> PyNone, _floating |-> PyNone, _format |-> PyNone,
                     _formatter |-> PyNone, _position |-> PyNone,
                     _relative_to |-> PyNone, _rtl |-> PyNone, _separator |-> PyNone,
                     _show_full_path |-> PyNone, _style |-> PyNone,
                     _use_html |-> PyNone, _z_index |-> PyNone])
            ELSE assign(after[i - 1], pairs[i])
    IN  after[Len(pairs)]

BreadcrumbOptions_from_dict(as_dict) ==
    BreadcrumbOptions_init(
        [button_spacing |-> pop(as_dict, "buttonSpacing", PyNone),
         button_theme |-> pop(as_dict, "buttonTheme", PyNone),
         events |-> pop(as_dict, "events", PyNone),
         floating |-> pop(as_dict, "floating", PyNone),
         format |-> pop(as_dict, "format", PyNone),
         formatter |-> pop(as_dict, "formatter", PyNone),
         position |-> pop(as_dict, "position", PyNone),
         relative_to |-> pop(as_dict, "relativeTo", PyNone),
         rtl |-> pop(as_dict, "rtl", PyNone),
         separator |-> pop(as_dict, "separator", PyNone),
         show_full_path |-> pop(as_dict, "showFullPath", PyNone),
         style |-> pop(as_dict, "style", PyNone),
         use_html |-> pop(as_dict, "useHTML", PyNone),
         z_index |-> pop(as_dict, "zIndex", PyNone)])

BreadcrumbOptions_to_untrimmed_dict(self) ==
    build_dict(<< <<"buttonSpacing", BreadcrumbOptions_get(self, "button_spacing")>>,
                  <<"buttonTheme", BreadcrumbOptions_get(self, "button_theme")>>,
                  <<"events", BreadcrumbOptions_get(self, "events")>>,
                  <<"floating", BreadcrumbOptions_get(self, "floating")>>,
                  <<"format", BreadcrumbOptions_get(self, "format")>>,
                  <<"formatter", BreadcrumbOptions_get(self, "formatter")>>,
                  <<"position", BreadcrumbOptions_get(self, "position")>>,
                  <<"relativeTo", BreadcrumbOptions_get(self, "relative_to")>>,
                  <<"rtl", BreadcrumbOptions_get(self, "rtl")>>,
                  <<"separator", BreadcrumbOptions_get(self, "separator")>>,
                  <<"showFullPath", BreadcrumbOptions_get(self, "show_full_path")>>,
                  <<"style", BreadcrumbOptions_get(self, "style")>>,
                  <<"useHTML", BreadcrumbOptions_get(self, "use_html")>>,
                  <<"zIndex", BreadcrumbOptions_get(self, "z_index")>> >>)

(***************************************************************************)
(* ResetZoomButtonOptions                                                  *)
(***************************************************************************)
ResetZoomButtonOptions_set_relative_to(self, value) ==
    IF ~Truthy(value) THEN Ok(SetAttr(self, "_relative_to", PyNone))
    ELSE LET r == validators_string(value, FALSE)
         IN  IF Raised(r) THEN RaiseAt(r.exc, self)
             ELSE IF lower(r.val.v) \notin relative_to_accepted
                  THEN RaiseAt("HighchartsValueError", self)
                  ELSE Ok(SetAttr(self, "_relative_to", PyStr(lower(r.val.v))))

ResetZoomButtonOptions_set(self, name, value) ==
    CASE name = "position" -> StoreNode(self, "_position", "Position", value,
                                        Imported_from_dict(value.v))
      [] name = "relative_to" -> ResetZoomButtonOptions_set_relative_to(self, value)
      [] name = "theme" -> Store(self, "_theme", validators_dict(value, TRUE))
      [] OTHER -> Ok(SetAttr(self, name, value))

ResetZoomButtonOptions_get(self, name) ==
    CASE name = "position" -> GetAttr(self, "_position")
      [] name = "relative_to" -> GetAttr(self, "_relative_to")
      [] name = "theme" -> GetAttr(self, "_theme")
      [] OTHER -> GetAttr(self, name)

ResetZoomButtonOptions_init(kwargs) ==
    LET pairs ==
            << <<"position", pop(kwargs, "position", PyNone)>>,
               <<"relative_to", pop(kwargs, "relative_to", PyNone)>>,
               <<"theme", pop(kwargs, "theme", PyNone)>> >>
        assign(before, pair) ==
            IF Raised(before) THEN before
            ELSE ResetZoomButtonOptions_set(before.val, pair[1], pair[2])
        after[i \in 0..Len(pairs)] ==
            IF i = 0
            THEN Ok([_position |-> PyNone, _relative_to |-> PyNone, _theme |-> PyNone])
            ELSE assign(after[i - 1], pairs[i])
    IN  after[Len(pairs)]

ResetZoomButtonOptions_from_dict(as_dict) ==
    ResetZoomButtonOptions_init([position |-> pop(as_dict, "position", PyNone),
                                 relative_to |-> pop(as_dict, "relativeTo", PyNone),
                                 theme |-> pop(as_dict, "theme", PyNone)])

ResetZoomButtonOptions_to_untrimmed_dict(self) ==
    build_dict(<< <<"position", ResetZoomButtonOptions_get(self, "position")>>,
                  <<"relativeTo", ResetZoomButtonOptions_get(self, "relative_to")>>,
                  <<"theme", ResetZoomButtonOptions_get(self, "theme")>> >>)

(***************************************************************************)
(* SeriesNavigation                                                        *)
(***************************************************************************)
mode_accepted == {str_normal, str_serialize}

\* the mode setter without the call of lower()
SeriesNavigation_set_mode_as_given(self, value) ==
    LET r == validators_string(value, FALSE)
    IN  IF Raised(r) THEN RaiseAt(r.exc, self)
        ELSE IF r.val.v \notin mode_accepted
             THEN RaiseAt("HighchartsValueError", self)
             ELSE Ok(SetAttr(self, "_mode", r.val))

SeriesNavigation_set_mode(self, value) ==
    LET r == validators_string(value, FALSE)
    IN  IF Raised(r) THEN RaiseAt(r.exc, self)
        ELSE IF lower(r.val.v) \notin mode_accepted
             THEN RaiseAt("HighchartsValueError", self)
             ELSE Ok(SetAttr(self, "_mode", PyStr(lower(r.val.v))))

SeriesNavigation_set_point_navigation_enabled_threshold(self, value) ==
    IF value = PyFalse
    THEN Ok(SetAttr(self, "_point_navigation_enabled_threshold", PyFalse))
    ELSE Store(self, "_point_navigation_enabled_threshold",
               validators_integer(value, FALSE, TRUE, PyNone))

SeriesNavigation_set(self, name, value) ==
    CASE name = "mode" -> SeriesNavigation_set_mode(self, value)
      [] name = "point_navigation_enabled_threshold" ->
           SeriesNavigation_set_point_navigation_enabled_threshold(self, value)
      [] name = "remember_point_focus" ->
           Ok(SetAttr(self, "_remember_point_focus", bool(value)))
      [] name = "skip_null_points" ->
           Ok(SetAttr(self, "_skip_null_points", bool(value)))
      [] OTHER -> Ok(SetAttr(self, name, value))

\* remember_point_focus returns self.point_focus, which is no property of the
\* class: the instance dictionary is searched for it.
SeriesNavigation_get(self, name) ==
    CASE name = "mode" -> GetAttr(self, "_mode")
      [] name = "point_navigation_enabled_threshold" ->
           GetAttr(self, "_point_navigation_enabled_threshold")
      [] name = "remember_point_focus" -> GetAttr(self, "point_focus")
      [] name = "skip_null_points" -> GetAttr(self, "_skip_null_points")
      [] OTHER -> GetAttr(self, name)

SeriesNavigation_init(kwargs) ==
    LET pairs ==
            << <<"mode", pop(kwargs, "mode", PyStr(str_normal))>>,
               <<"point_navigation_enabled_threshold",
                 pop(kwargs, "point_navigation_enabled_threshold", PyFalse)>>,
               <<"remember_point_focus", pop(kwargs, "remember_point_focus", PyFalse)>>,
               <<"skip_null_points", pop(kwargs, "skip_null_points", PyTrue)>> >>
        assign(before, pair) ==
            IF Raised(before) THEN before
            ELSE SeriesNavigation_set(before.val, pair[1], pair[2])
        after[i \in 0..Len(pairs)] ==
            IF i = 0
            THEN Ok([_mode |-> PyStr(str_normal),
                     _point_navigation_enabled_threshold |-> PyFalse,
                     _remember_point_focus |-> PyFalse,
                     _skip_null_points |-> PyTrue])
            ELSE assign(after[i - 1], pairs[i])
    IN  after[Len(pairs)]

SeriesNavigation_from_dict(as_dict) ==
    SeriesNavigation_init(
        [mode |-> pop(as_dict, "mode", PyStr(str_normal)),
         point_navigation_enabled_threshold |->
             pop(as_dict, "pointNavigationEnabledThreshold", PyFalse),
         remember_point_focus |-> pop(as_dict, "rememberPointFocus", PyFalse),
         skip_null_points |-> pop(as_dict, "skipNullPoints", PyTrue)])

\* to_dict reads self.remmeber_point_focus (sic)
SeriesNavigation_to_dict(self) ==
    LET untrimmed ==
            build_dict(<< <<"mode", SeriesNavigation_get(self, "mode")>>,
                          <<"pointNavigationEnabledThreshold",
                            SeriesNavigation_get(self, "point_navigation_enabled_threshold")>>,
                          <<"rememberPointFocus",
                            SeriesNavigation_get(self, "remmeber_point_focus")>>,
                          <<"skipNullPoints",
                            SeriesNavigation_get(self, "skip_null_points")>> >>)
    IN  IF Raised(untrimmed) THEN untrimmed ELSE trim_dict(untrimmed.val.v)

(***************************************************************************)
(* GenericTypeOptions and SeriesOptions, the parents of GaugeOptions and   *)
(* SolidGauge: of their properties the model keeps class_name and visible. *)
(***************************************************************************)
GenericTypeOptions_set(self, name, value) ==
    CASE name = "class_name" -> Store(self, "_class_name", validators_string(value, TRUE))
      [] name = "visible" -> StoreBool(self, "_visible", value)
      [] OTHER -> Ok(SetAttr(self, name, value))

GenericTypeOptions_get(self, name) ==
    CASE name = "class_name" -> GetAttr(self, "_class_name")
      [] name = "visible" -> GetAttr(self, "_visible")
      [] OTHER -> GetAttr(self, name)

\* super().__init__(**kwargs) on the instance `self`: the subclasses do not
\* override the properties that it assigns.
GenericTypeOptions_init(self, kwargs) ==
    LET pairs ==
            << <<"class_name", pop(kwargs, "class_name", PyNone)>>,
               <<"visible", pop(kwargs, "visible", PyNone)>> >>
        assign(before, pair) ==
            IF Raised(before) THEN before
            ELSE GenericTypeOptions_set(before.val, pair[1], pair[2])
        after[i \in 0..Len(pairs)] ==
            IF i = 0
            THEN Ok(SetAttr(SetAttr(self, "_class_name", PyNone), "_visible", PyNone))
            ELSE assign(after[i - 1], pairs[i])
    IN  after[Len(pairs)]

\* super().to_dict()
GenericTypeOptions_to_dict(self) ==
    LET untrimmed == build_dict(<< <<"className", GenericTypeOptions_get(self, "class_name")>>,
                                   <<"visible",
                                     GenericTypeOptions_get(self, "visible")>> >>)
    IN  IF Raised(untrimmed) THEN untrimmed ELSE trim_dict(untrimmed.val.v)

\* untrimmed[key] = parent_as_dict[key] for every key of parent_as_dict
Merge(untrimmed, parent_as_dict) ==
    [k \in DOMAIN untrimmed \cup DOMAIN parent_as_dict |->
        IF k \in DOMAIN parent_as_dict THEN parent_as_dict[k] ELSE untrimmed[k]]

(***************************************************************************)
(* GaugeOptions                                                            *)
(***************************************************************************)
GaugeOptions_set_shadow(self, value) ==
    IF value.t = "bool" THEN Ok(SetAttr(self, "_shadow", value))
    ELSE IF ~Truthy(value) THEN Ok(SetAttr(self, "_shadow", PyNone))
    ELSE StoreNode(self, "_shadow", "ShadowOptions", value,
                   Imported_from_dict(value.v))

GaugeOptions_set(self, name, value) ==
    CASE name = "color_index" ->
           Store(self, "_color_index", validators_integer(value, TRUE, FALSE, PyInt(0)))
      [] name = "crisp" -> StoreBool(self, "_crisp", value)
      [] name = "dial" -> StoreNode(self, "_dial", "DialOptions", value,
                                    DialOptions_from_dict(value.v))
      [] name = "linecap" -> Store(self, "_linecap", validators_string(value, TRUE))
      [] name = "line_width" ->
           Store(self, "_line_width", validators_numeric(value, TRUE, PyInt(0)))
      [] name = "overshoot" ->
           Store(self, "_overshoot", validators_numeric(value, TRUE, PyInt(0)))
      [] name = "pivot" -> StoreNode(self, "_pivot", "PivotOptions", value,
                                     PivotOptions_from_dict(value.v))
      [] name = "point_interval" ->
           Store(self, "_point_interval", validators_numeric(value, TRUE, PyInt(0)))
      [] name = "point_interval_unit" ->
           Store(self, "_point_interval_unit", validators_string(value, TRUE))
      [] name = "point_start" ->
           Store(self, "_point_start", validators_numeric(value, TRUE, PyNone))
      [] name = "relative_x_value" -> StoreBool(self, "_relative_x_value", value)
      [] name = "shadow" -> GaugeOptions_set_shadow(self, value)
      [] name = "wrap" -> StoreBool(self, "_wrap", value)
      [] OTHER -> GenericTypeOptions_set(self, name, value)

GaugeOptions_get(self, name) ==
    CASE name = "color_index" -> GetAttr(self, "_color_index")
      [] name = "crisp" -> GetAttr(self, "_crisp")
      [] name = "dial" -> GetAttr(self, "_dial")
      [] name = "linecap" -> GetAttr(self, "_linecap")
      [] name = "line_width" -> GetAttr(self, "_line_width")
      [] name = "overshoot" -> GetAttr(self, "_overshoot")
      [] name = "pivot" -> GetAttr(self, "_pivot")
      [] name = "point_interval" -> GetAttr(self, "_point_interval")
      [] name = "point_interval_unit" -> GetAttr(self, "_point_interval_unit")
      [] name = "point_start" -> GetAttr(self, "_point_start")
      [] name = "relative_x_value" -> GetAttr(self, "_relative_x_value")
      [] name = "shadow" -> GetAttr(self, "_shadow")
      [] name = "wrap" -> GetAttr(self, "_wrap")
      [] OTHER -> GenericTypeOptions_get(self, name)

GaugeOptions_init(kwargs) ==
    LET pairs ==
            << <<"color_index", pop(kwargs, "color_index", PyNone)>>,
               <<"crisp", pop(kwargs, "crisp", PyNone)>>,
               <<"dial", pop(kwargs, "dial", PyNone)>>,
               <<"linecap", pop(kwargs, "linecap", PyNone)>>,
               <<"line_width", pop(kwargs, "line_width", PyNone)>>,
               <<"overshoot", pop(kwargs, "overshoot", PyNone)>>,
               <<"pivot", pop(kwargs, "pivot", PyNone)>>,
               <<"point_interval", pop(kwargs, "point_interval", PyNone)>>,
               <<"point_interval_unit", pop(kwargs, "point_interval_unit", PyNone)>>,
               <<"point_start", pop(kwargs, "point_start", PyNone)>>,
               <<"relative_x_value", pop(kwargs, "relative_x_value", PyNone)>>,
               <<"shadow", pop(kwargs, "shadow", PyNone)>>,
               <<"wrap", pop(kwargs, "wrap", PyNone)>> >>
        assign(before, pair) ==
            IF Raised(before) THEN before
            ELSE GaugeOptions_set(before.val, pair[1], pair[2])
        after[i \in 0..Len(pairs)] ==
            IF i = 0
            THEN Ok([_color_index |-> PyNone, _crisp |-> PyNone, _dial |-> PyNone,
                     _linecap |-> PyNone, _line_width |-> PyNone, _overshoot |-> PyNone,
                     _pivot |-> PyNone, _point_interval |-> PyNone,
                     _point_interval_unit |-> PyNone, _point_start |-> PyNone,
                     _relative_x_value |-> PyNone, _shadow |-> PyNone, _wrap |-> PyNone])
            ELSE assign(after[i - 1], pairs[i])
        own == after[Len(pairs)]
    IN  IF Raised(own) THEN own
        ELSE GenericTypeOptions_init(own.val, kwargs)

\* The keyword arguments of the parent that the model keeps, then the class's
\* own: there is no point_start among them, and point_placement is no
\* property of the class.
GaugeOptions_get_kwargs_from_dict(as_dict) ==
    [class_name |-> pop(as_dict, "className", PyNone),
     visible |-> pop(as_dict, "visible", PyTrue),
     color_index |-> pop(as_dict, "colorIndex", PyNone),
     crisp |-> pop(as_dict, "crisp", PyTrue),
     linecap |-> pop(as_dict, "linecap", PyStr(str_round)),
     line_width |-> pop(as_dict, "lineWidth", PyInt(2)),
     point_interval |-> pop(as_dict, "pointInterval", PyInt(1)),
     point_interval_unit |-> pop(as_dict, "pointIntervalUnit", PyNone),
     point_placement |-> pop(as_dict, "pointPlacement", PyNone),
     relative_x_value |-> pop(as_dict, "relativeXValue", PyFalse),
     shadow |-> pop(as_dict, "shadow", PyFalse),
     dial |-> pop(as_dict, "dial", PyNone),
     overshoot |-> pop(as_dict, "overshoot", PyNone),
     pivot |-> pop(as_dict, "pivot", PyNone),
     wrap |-> pop(as_dict, "wrap", PyNone)]

GaugeOptions_to_dict(self) ==
    LET untrimmed ==
            build_dict(<< <<"colorIndex", GaugeOptions_get(self, "color_index")>>,
                          <<"crisp", GaugeOptions_get(self, "crisp")>>,
                          <<"dial", GaugeOptions_get(self, "dial")>>,
                          <<"linecap", GaugeOptions_get(self, "linecap")>>,
                          <<"lineWidth", GaugeOptions_get(self, "line_width")>>,
                          <<"overshoot", GaugeOptions_get(self, "overshoot")>>,
                          <<"pivot", GaugeOptions_get(self, "pivot")>>,
                          <<"pointInterval", GaugeOptions_get(self, "point_interval")>>,
                          <<"pointIntervalUnit",
                            GaugeOptions_get(self, "point_interval_unit")>>,
                          <<"pointStart", GaugeOptions_get(self, "point_start")>>,
                          <<"relativeXValue",
                            GaugeOptions_get(self, "relative_x_value")>>,
                          <<"shadow", GaugeOptions_get(self, "shadow")>>,
                          <<"wrap", GaugeOptions_get(self, "wrap")>> >>)
        parent_as_dict == GenericTypeOptions_to_dict(self)
    IN  IF Raised(untrimmed) THEN untrimmed
        ELSE IF Raised(parent_as_dict) THEN parent_as_dict
        ELSE trim_dict(Merge(untrimmed.val.v, parent_as_dict.val.v))

(***************************************************************************)
(* SolidGauge                                                              *)
(***************************************************************************)
\* try: value = validators.string(value); '%' not in value raises ValueError
\* except ValueError: value = validators.numeric(value, minimum = 0)
percentage_or_number(self, attr, value) ==
    LET r == validators_string(value, FALSE)
        as_number == Store(self, attr, validators_numeric(value, FALSE, PyInt(0)))
    IN  IF Raised(r)
        THEN IF r.exc \in ValueErrors THEN as_number ELSE RaiseAt(r.exc, self)
        ELSE IF Contains(r.val.v, str_percent)
             THEN Ok(SetAttr(self, attr, r.val))
             ELSE as_number

SolidGauge_set_inner_radius(self, value) ==
    IF value.t = "None" THEN Ok(SetAttr(self, "_inner_radius", PyNone))
    ELSE percentage_or_number(self, "_inner_radius", value)

SolidGauge_set_radius(self, value) ==
    IF value.t = "None" THEN Ok(SetAttr(self, "_radius", PyNone))
    ELSE percentage_or_number(self, "_radius", value)

SolidGauge_set(self, name, value) ==
    CASE name = "inner_radius" -> SolidGauge_set_inner_radius(self, value)
      [] name = "overshoot" ->
           Store(self, "_overshoot", validators_numeric(value, TRUE, PyInt(0)))
      [] name = "radius" -> SolidGauge_set_radius(self, value)
      [] name = "rounded" -> StoreBool(self, "_rounded", value)
      [] OTHER -> GenericTypeOptions_set(self, name, value)

SolidGauge_get(self, name) ==
    CASE name = "inner_radius" -> GetAttr(self, "_inner_radius")
      [] name = "overshoot" -> GetAttr(self, "_overshoot")
      [] name = "radius" -> GetAttr(self, "_radius")
      [] name = "rounded" -> GetAttr(self, "_rounded")
      [] OTHER -> GenericTypeOptions_get(self, name)

SolidGauge_init(kwargs) ==
    LET pairs ==
            << <<"inner_radius", pop(kwargs, "inner_radius", PyNone)>>,
               <<"overshoot", pop(kwargs, "overshoot", PyNone)>>,
               <<"radius", pop(kwargs, "radius", PyNone)>>,
               <<"rounded", pop(kwargs, "rounded", PyNone)>> >>
        assign(before, pair) ==
            IF Raised(before) THEN before
            ELSE SolidGauge_set(before.val, pair[1], pair[2])
        after[i \in 0..Len(pairs)] ==
            IF i = 0
            THEN Ok([_inner_radius |-> PyNone, _overshoot |-> PyNone,
                     _radius |-> PyNone, _rounded |-> PyNone])
            ELSE assign(after[i - 1], pairs[i])
        own == after[Len(pairs)]
    IN  IF Raised(own) THEN own
        ELSE GenericTypeOptions_init(own.val, kwargs)

SolidGauge_get_kwargs_from_dict(as_dict) ==
    [class_name |-> pop(as_dict, "className", PyNone),
     visible |-> pop(as_dict, "visible", PyTrue),
     inner_radius |-> pop(as_dict, "innerRadius", PyNone),
     overshoot |-> pop(as_dict, "overshoot", PyNone),
     radius |-> pop(as_dict, "radius", PyNone),
     rounded |-> pop(as_dict, "rounded", PyNone)]

\* super(self).to_dict(): super() of an instance raises TypeError
SolidGauge_super_to_dict(self) == Raise("TypeError")

SolidGauge_to_dict(self) ==
    LET untrimmed ==
            build_dict(<< <<"inner_radius", SolidGauge_get(self, "inner_radius")>>,
                          <<"overshoot", SolidGauge_get(self, "overshoot")>>,
                          <<"radius", SolidGauge_get(self, "radius")>>,
                          <<"rounded", SolidGauge_get(self, "rounded")>> >>)
        parent_as_dict == SolidGauge_super_to_dict(self)
    IN  IF Raised(untrimmed) THEN untrimmed
        ELSE IF Raised(parent_as_dict) THEN parent_as_dict
        ELSE trim_dict(Merge(untrimmed.val.v, parent_as_dict.val.v))

(***************************************************************************)
(* DataBase and CartesianData, the parents of the data points: of their    *)
(* properties the model keeps class_name and selected, and x and y.        *)
(***************************************************************************)
DataBase_set(self, name, value) ==
    CASE name = "class_name" -> Store(self, "_class_name", validators_string(value, TRUE))
      [] name = "selected" -> StoreBool(self, "_selected", value)
      [] OTHER -> Ok(SetAttr(self, name, value))

DataBase_get(self, name) ==
    CASE name = "class_name" -> GetAttr(self, "_class_name")
      [] name = "selected" -> GetAttr(self, "_selected")
      [] OTHER -> GetAttr(self, name)

DataBase_init(self, kwargs) ==
    LET pairs ==
            << <<"class_name", pop(kwargs, "class_name", PyNone)>>,
               <<"selected", pop(kwargs, "selected", PyNone)>> >>
        assign(before, pair) ==
            IF Raised(before) THEN before
            ELSE DataBase_set(before.val, pair[1], pair[2])
        after[i \in 0..Len(pairs)] ==
            IF i = 0
            THEN Ok(SetAttr(SetAttr(self, "_class_name", PyNone), "_selected", PyNone))
            ELSE assign(after[i - 1], pairs[i])
    IN  after[Len(pairs)]

CartesianData_set(self, name, value) ==
    CASE name = "x" -> Store(self, "_x", validators_numeric(value, TRUE, PyNone))
      [] name = "y" -> Store(self, "_y", validators_numeric(value, TRUE, PyNone))
      [] OTHER -> DataBase_set(self, name, value)

CartesianData_get(self, name) ==
    CASE name = "x" -> GetAttr(self, "_x")
      [] name = "y" -> GetAttr(self, "_y")
      [] OTHER -> DataBase_get(self, name)

CartesianData_init(self, kwargs) ==
    LET pairs ==
            << <<"x", pop(kwargs, "x", PyNone)>>,
               <<"y", pop(kwargs, "y", PyNone)>> >>
        assign(before, pair) ==
            IF Raised(before) THEN before
            ELSE CartesianData_set(before.val, pair[1], pair[2])
        after[i \in 0..Len(pairs)] ==
            IF i = 0
            THEN Ok(SetAttr(SetAttr(self, "_x", PyNone), "_y", PyNone))
            ELSE assign(after[i - 1], pairs[i])
        own == after[Len(pairs)]
    IN  IF Raised(own) THEN own ELSE DataBase_init(own.val, kwargs)

(***************************************************************************)
(* VectorData                                                              *)
(***************************************************************************)
VectorData_set(self, name, value) ==
    CASE name = "direction" ->
           Store(self, "_direction", validators_numeric(value, TRUE, PyNone))
      [] name = "length" -> Store(self, "_length", validators_numeric(value, TRUE, PyNone))
      [] OTHER -> CartesianData_set(self, name, value)

VectorData_get(self, name) ==
    CASE name = "direction" -> GetAttr(self, "_direction")
      [] name = "length" -> GetAttr(self, "_length")
      [] OTHER -> CartesianData_get(self, name)

VectorData_init(kwargs) ==
    LET pairs ==
            << <<"direction", pop(kwargs, "direction", PyNone)>>,
               <<"length", pop(kwargs, "length", PyNone)>> >>
        assign(before, pair) ==
            IF Raised(before) THEN before
            ELSE VectorData_set(before.val, pair[1], pair[2])
        after[i \in 0..Len(pairs)] ==
            IF i = 0
            THEN Ok([_direction |-> PyNone, _length |-> PyNone])
            ELSE assign(after[i - 1], pairs[i])
        own == after[Len(pairs)]
    IN  IF Raised(own) THEN own ELSE CartesianData_init(own.val, kwargs)

VectorData_get_kwargs_from_dict(as_dict) ==
    [class_name |-> pop(as_dict, "className", PyNone),
     selected |-> pop(as_dict, "selected", PyNone),
     x |-> pop(as_dict, "x", PyNone),
     y |-> pop(as_dict, "y", PyNone),
     direction |-> pop(as_dict, "direction", PyNone),
     length |-> pop(as_dict, "length", PyNone)]

VectorData_to_dict(self) ==
    LET untrimmed ==
            build_dict(<< <<"className", VectorData_get(self, "class_name")>>,
                          <<"selected", VectorData_get(self, "selected")>>,
                          <<"x", VectorData_get(self, "x")>>,
                          <<"y", VectorData_get(self, "y")>>,
                          <<"direction", VectorData_get(self, "direction")>>,
                          <<"length", VectorData_get(self, "length")>> >>)
    IN  IF Raised(untrimmed) THEN untrimmed ELSE trim_dict(untrimmed.val.v)

(***************************************************************************)
(* ConnectionData                                                          *)
(***************************************************************************)
ConnectionData_set(self, name, value) ==
    CASE name = "data_labels" -> StoreNode(self, "_data_labels", "DataLabel", value,
                                           Imported_from_dict(value.v))
      [] name = "drag_drop" -> StoreNode(self, "_drag_drop", "DragDropOptions", value,
                                         Imported_from_dict(value.v))
      [] name = "from_" -> Store(self, "_from_", validators_string(value, TRUE))
      [] name = "to" -> Store(self, "_to", validators_string(value, TRUE))
      [] OTHER -> DataBase_set(self, name, value)

ConnectionData_get(self, name) ==
    CASE name = "data_labels" -> GetAttr(self, "_data_labels")
      [] name = "drag_drop" -> GetAttr(self, "_drag_drop")
      [] name = "from_" -> GetAttr(self, "_from_")
      [] name = "to" -> GetAttr(self, "_to")
      [] OTHER -> DataBase_get(self, name)

ConnectionData_init(kwargs) ==
    LET pairs ==
            << <<"data_labels", pop(kwargs, "data_labels", PyNone)>>,
               <<"drag_drop", pop(kwargs, "drag_drop", PyNone)>>,
               <<"from_", pop(kwargs, "from_", PyNone)>>,
               <<"to", pop(kwargs, "to", PyNone)>> >>
        assign(before, pair) ==
            IF Raised(before) THEN before
            ELSE ConnectionData_set(before.val, pair[1], pair[2])
        after[i \in 0..Len(pairs)] ==
            IF i = 0
            THEN Ok([_data_labels |-> PyNone, _drag_drop |-> PyNone,
                     _from_ |-> PyNone, _to |-> PyNone])
            ELSE assign(after[i - 1], pairs[i])
        own == after[Len(pairs)]
    IN  IF Raised(own) THEN own ELSE DataBase_init(own.val, kwargs)

ConnectionData_get_kwargs_from_dict(as_dict) ==
    [class_name |-> pop(as_dict, "className", PyNone),
     selected |-> pop(as_dict, "selected", PyNone),
     data_labels |-> pop(as_dict, "dataLabels", PyNone),
     drag_drop |-> pop(as_dict, "dragDrop", PyNone),
     from_ |-> pop(as_dict, "from", PyNone),
     to |-> pop(as_dict, "to", PyNone)]

ConnectionData_to_dict(self) ==
    LET untrimmed ==
            build_dict(<< <<"className", ConnectionData_get(self, "class_name")>>,
                          <<"selected", ConnectionData_get(self, "selected")>>,
                          <<"dataLabels", ConnectionData_get(self, "data_labels")>>,
                          <<"dragDrop", ConnectionData_get(self, "drag_drop")>>,
                          <<"from", ConnectionData_get(self, "from_")>>,
                          <<"to", ConnectionData_get(self, "to")>> >>)
    IN  IF Raised(untrimmed) THEN untrimmed ELSE trim_dict(untrimmed.val.v)

(***************************************************************************)
(* from_setter of the data points: the list of nodes that a value assigned *)
(* to the data of a series is turned into.                                 *)
(***************************************************************************)
\* constants.EnforcedNull, the instance of constants.EnforcedNullType
EnforcedNull == PyObj("EnforcedNullType", EmptyDict)

\* checkers.is_iterable(obj): None, a str and a value without iter() are
\* refused; a dict is iterable
checkers_is_iterable(obj) == obj.t \in {"list", "dict"}

\* checkers.is_type(obj, type_): the name of the class of obj
checkers_is_type(obj, type_) == obj.t = "obj" /\ obj.v.cls = type_

\* checkers.is_dict(value): validators.dict(value) does not raise
checkers_is_dict(value) == ~Raised(validators_dict(value, FALSE))

\* the keys of the data points as str
key_str ==
    [x |-> <<"x">>, y |-> <<"y">>, to |-> <<"t", "o">>,
     from |-> <<"f", "r", "o", "m">>,
     length |-> <<"l", "e", "n", "g", "t", "h">>,
     selected |-> <<"s", "e", "l", "e", "c", "t", "e", "d">>,
     direction |-> <<"d", "i", "r", "e", "c", "t", "i", "o", "n">>,
     className |-> <<"c", "l", "a", "s", "s", "N", "a", "m", "e">>,
     dragDrop |-> <<"d", "r", "a", "g", "D", "r", "o", "p">>,
     dataLabels |-> <<"d", "a", "t", "a", "L", "a", "b", "e", "l", "s">>]

\* for item in value: the items of a list, the keys of a dict in the order
\* of the dict
items_of(value) ==
    IF value.t = "list" THEN value.v
    ELSE LET keys == CHOOSE q \in [1..Cardinality(DOMAIN value.v) -> DOMAIN value.v] :
                         \A k \in DOMAIN value.v : \E i \in DOMAIN q : q[i] = k
         IN  [i \in DOMAIN keys |-> PyStr(key_str[keys[i]])]

\* len(item), of an item that is no dict with keys
len(item) ==
    CASE item.t \in {"list", "str"} -> Ok(Len(item.v))
      [] item.t = "dict" -> Ok(0)
      [] OTHER -> Raise("TypeError")

\* item[i]
item_at(item, i) ==
    IF item.t = "str" THEN PyStr(<<item.v[i + 1]>>) ELSE item.v[i + 1]

\* as_obj = cls(...): the instance, or the exception of __init__
as_obj(cls, r) == IF Raised(r) THEN Raise(r.exc) ELSE Ok(PyObj(cls, r.val))

\* collection.append(as_obj)
append(collection, r) ==
    IF Raised(collection) THEN collection
    ELSE IF Raised(r) THEN r
    ELSE Ok(PyList(Append(collection.val.v, r.val)))

\* the item read in the order x, y, direction, length
VectorData_from_item_direction_first(item) ==
    IF checkers_is_type(item, "VectorData") THEN Ok(item)
    ELSE IF checkers_is_dict(item)
    THEN as_obj("VectorData", VectorData_init(VectorData_get_kwargs_from_dict(item.v)))
    ELSE IF item.t = "None" \/ checkers_is_type(item, "EnforcedNullType")
    THEN as_obj("VectorData", VectorData_init(EmptyDict))
    ELSE IF Raised(len(item)) THEN len(item)
    ELSE IF len(item).val = 4
    THEN as_obj("VectorData", VectorData_init([x |-> item_at(item, 0),
                                               y |-> item_at(item, 1),
                                               length |-> item_at(item, 3),
                                               direction |-> item_at(item, 2)]))
    ELSE IF len(item).val = 3
    THEN as_obj("VectorData", VectorData_init([x |-> PyNone,
                                               y |-> item_at(item, 0),
                                               length |-> item_at(item, 1),
                                               direction |-> item_at(item, 2)]))
    ELSE Raise("HighchartsValueError")

\* the body of the loop of VectorData.from_setter
VectorData_from_item(item) ==
    IF checkers_is_type(item, "VectorData") THEN Ok(item)
    ELSE IF checkers_is_dict(item)
    THEN as_obj("VectorData", VectorData_init(VectorData_get_kwargs_from_dict(item.v)))
    ELSE IF item.t = "None" \/ checkers_is_type(item, "EnforcedNullType")
    THEN as_obj("VectorData", VectorData_init(EmptyDict))
    ELSE IF Raised(len(item)) THEN len(item)
    ELSE IF len(item).val = 4
    THEN as_obj("VectorData", VectorData_init([x |-> item_at(item, 0),
                                               y |-> item_at(item, 1),
                                               length |-> item_at(item, 2),
                                               direction |-> item_at(item, 3)]))
    ELSE IF len(item).val = 3
    THEN as_obj("VectorData", VectorData_init([x |-> PyNone,
                                               y |-> item_at(item, 0),
                                               length |-> item_at(item, 1),
                                               direction |-> item_at(item, 2)]))
    ELSE Raise("HighchartsValueError")

\* the item that is None or the sentinel skipped
VectorData_from_setter_dropping_null(value) ==
    IF ~Truthy(value) THEN Ok(PyList(<<>>))
    ELSE LET items == IF ~checkers_is_iterable(value) THEN <<value>>
                      ELSE items_of(value)
             collection[i \in 0..Len(items)] ==
                 IF i = 0 THEN Ok(PyList(<<>>))
                 ELSE IF items[i].t = "None" \/ checkers_is_type(items[i], "EnforcedNullType")
                 THEN collection[i - 1]
                 ELSE append(collection[i - 1],
                             VectorData_from_item(items[i]))
         IN  collection[Len(items)]

VectorData_from_setter(value) ==
    IF ~Truthy(value) THEN Ok(PyList(<<>>))
    ELSE LET items == IF ~checkers_is_iterable(value) THEN <<value>>
                      ELSE items_of(value)
             collection[i \in 0..Len(items)] ==
                 IF i = 0 THEN Ok(PyList(<<>>))
                 ELSE append(collection[i - 1], VectorData_from_item(items[i]))
         IN  collection[Len(items)]

\* the body of the loop of ConnectionData.from_setter
ConnectionData_from_item(item) ==
    IF checkers_is_type(item, "ConnectionData") THEN Ok(item)
    ELSE IF checkers_is_dict(item)
    THEN as_obj("ConnectionData",
                ConnectionData_init(ConnectionData_get_kwargs_from_dict(item.v)))
    ELSE IF item.t = "None" \/ checkers_is_type(item, "EnforcedNullType")
    THEN as_obj("ConnectionData", ConnectionData_init(EmptyDict))
    ELSE Raise("HighchartsValueError")

ConnectionData_from_setter(value) ==
    IF ~Truthy(value) THEN Ok(PyList(<<>>))
    ELSE LET items == IF ~checkers_is_iterable(value) THEN <<value>>
                      ELSE items_of(value)
             collection[i \in 0..Len(items)] ==
                 IF i = 0 THEN Ok(PyList(<<>>))
                 ELSE append(collection[i - 1], ConnectionData_from_item(items[i]))
         IN  collection[Len(items)]

(***************************************************************************)
(* The classes, and the dispatch on the class.                             *)
(***************************************************************************)
FlatClasses == {"Loading", "ZoomLanguageOptions", "RangeSelectorLanguageOptions",
                "DataPointAccessibility"}
Classes == FlatClasses \cup
           {"Separator", "BreadcrumbOptions", "ResetZoomButtonOptions",
            "SeriesNavigation", "DialOptions", "PivotOptions", "GaugeOptions",
            "SolidGauge", "VectorData", "ConnectionData"}

\* self.<name> = value on an instance of cls
setattr(cls, self, name, value) ==
    CASE cls = "Loading" -> Loading_set(self, name, value)
      [] cls = "ZoomLanguageOptions" -> ZoomLanguageOptions_set(self, name, value)
      [] cls = "RangeSelectorLanguageOptions" ->
           RangeSelectorLanguageOptions_set(self, name, value)
      [] cls = "DataPointAccessibility" -> DataPointAccessibility_set(self, name, value)
      [] cls = "Separator" -> Separator_set(self, name, value)
      [] cls = "BreadcrumbOptions" -> BreadcrumbOptions_set(self, name, value)
      [] cls = "ResetZoomButtonOptions" -> ResetZoomButtonOptions_set(self, name, value)
      [] cls = "SeriesNavigation" -> SeriesNavigation_set(self, name, value)
      [] cls = "DialOptions" -> DialOptions_set(self, name, value)
      [] cls = "PivotOptions" -> PivotOptions_set(self, name, value)
      [] cls = "GaugeOptions" -> GaugeOptions_set(self, name, value)
      [] cls = "SolidGauge" -> SolidGauge_set(self, name, value)
      [] cls = "VectorData" -> VectorData_set(self, name, value)
      [] cls = "ConnectionData" -> ConnectionData_set(self, name, value)

\* self.<name> on an instance of cls
getattr(cls, self, name) ==
    CASE cls = "Loading" -> Loading_get(self, name)
      [] cls = "ZoomLanguageOptions" -> ZoomLanguageOptions_get(self, name)
      [] cls = "RangeSelectorLanguageOptions" ->
           RangeSelectorLanguageOptions_get(self, name)
      [] cls = "DataPointAccessibility" -> DataPointAccessibility_get(self, name)
      [] cls = "Separator" -> Separator_get(self, name)
      [] cls = "BreadcrumbOptions" -> BreadcrumbOptions_get(self, name)
      [] cls = "ResetZoomButtonOptions" -> ResetZoomButtonOptions_get(self, name)
      [] cls = "SeriesNavigation" -> SeriesNavigation_get(self, name)
      [] cls = "DialOptions" -> DialOptions_get(self, name)
      [] cls = "PivotOptions" -> PivotOptions_get(self, name)
      [] cls = "GaugeOptions" -> GaugeOptions_get(self, name)
      [] cls = "SolidGauge" -> SolidGauge_get(self, name)
      [] cls = "VectorData" -> VectorData_get(self, name)
      [] cls = "ConnectionData" -> ConnectionData_get(self, name)

\* cls(**kwargs)
new(cls, kwargs) ==
    CASE cls = "Loading" -> Loading_init(kwargs)
      [] cls = "ZoomLanguageOptions" -> ZoomLanguageOptions_init(kwargs)
      [] cls = "RangeSelectorLanguageOptions" -> RangeSelectorLanguageOptions_init(kwargs)
      [] cls = "DataPointAccessibility" -> DataPointAccessibility_init(kwargs)
      [] cls = "Separator" -> Separator_init(kwargs)
      [] cls = "BreadcrumbOptions" -> BreadcrumbOptions_init(kwargs)
      [] cls = "ResetZoomButtonOptions" -> ResetZoomButtonOptions_init(kwargs)
      [] cls = "SeriesNavigation" -> SeriesNavigation_init(kwargs)
      [] cls = "DialOptions" -> DialOptions_init(kwargs)
      [] cls = "PivotOptions" -> PivotOptions_init(kwargs)
      [] cls = "GaugeOptions" -> GaugeOptions_init(kwargs)
      [] cls = "SolidGauge" -> SolidGauge_init(kwargs)
      [] cls = "VectorData" -> VectorData_init(kwargs)
      [] cls = "ConnectionData" -> ConnectionData_init(kwargs)
      [] cls \in ImportedClasses -> Imported_init(kwargs)

\* cls.from_dict(as_dict); HighchartsMeta.from_dict is
\* cls(**cls._get_kwargs_from_dict(as_dict)) for the classes that define no
\* from_dict of their own.
from_dict(cls, as_dict) ==
    CASE cls = "Loading" -> Loading_from_dict(as_dict)
      [] cls = "ZoomLanguageOptions" -> ZoomLanguageOptions_from_dict(as_dict)
      [] cls = "RangeSelectorLanguageOptions" ->
           RangeSelectorLanguageOptions_from_dict(as_dict)
      [] cls = "DataPointAccessibility" -> DataPointAccessibility_from_dict(as_dict)
      [] cls = "Separator" -> Separator_from_dict(as_dict)
      [] cls = "BreadcrumbOptions" -> BreadcrumbOptions_from_dict(as_dict)
      [] cls = "ResetZoomButtonOptions" -> ResetZoomButtonOptions_from_dict(as_dict)
      [] cls = "SeriesNavigation" -> SeriesNavigation_from_dict(as_dict)
      [] cls = "DialOptions" -> DialOptions_from_dict(as_dict)
      [] cls = "PivotOptions" -> PivotOptions_from_dict(as_dict)
      [] cls = "GaugeOptions" ->
           GaugeOptions_init(GaugeOptions_get_kwargs_from_dict(as_dict))
      [] cls = "SolidGauge" -> SolidGauge_init(SolidGauge_get_kwargs_from_dict(as_dict))
      [] cls = "VectorData" -> VectorData_init(VectorData_get_kwargs_from_dict(as_dict))
      [] cls = "ConnectionData" ->
           ConnectionData_init(ConnectionData_get_kwargs_from_dict(as_dict))
      [] cls \in ImportedClasses -> Imported_from_dict(as_dict)

\* self._to_untrimmed_dict() of the classes that leave to_dict to HighchartsMeta
to_untrimmed_dict(cls, self) ==
    CASE cls = "Loading" -> Loading_to_untrimmed_dict(self)
      [] cls = "ZoomLanguageOptions" -> ZoomLanguageOptions_to_untrimmed_dict(self)
      [] cls = "RangeSelectorLanguageOptions" ->
           RangeSelectorLanguageOptions_to_untrimmed_dict(self)
      [] cls = "DataPointAccessibility" -> DataPointAccessibility_to_untrimmed_dict(self)
      [] cls = "Separator" -> Separator_to_untrimmed_dict(self)
      [] cls = "BreadcrumbOptions" -> BreadcrumbOptions_to_untrimmed_dict(self)
      [] cls = "ResetZoomButtonOptions" -> ResetZoomButtonOptions_to_untrimmed_dict(self)

\* HighchartsMeta.to_dict: self.trim_dict(self._to_untrimmed_dict())
HighchartsMeta_to_dict(cls, self) ==
    LET untrimmed == to_untrimmed_dict(cls, self)
    IN  IF Raised(untrimmed) THEN untrimmed ELSE trim_dict(untrimmed.val.v)

\* self.to_dict() on an instance of cls
to_dict(cls, self) ==
    CASE cls = "SeriesNavigation" -> SeriesNavigation_to_dict(self)
      [] cls = "DialOptions" -> DialOptions_to_dict(self)
      [] cls = "PivotOptions" -> PivotOptions_to_dict(self)
      [] cls = "GaugeOptions" -> GaugeOptions_to_dict(self)
      [] cls = "SolidGauge" -> SolidGauge_to_dict(self)
      [] cls = "VectorData" -> VectorData_to_dict(self)
      [] cls = "ConnectionData" -> ConnectionData_to_dict(self)
      [] cls \in ImportedClasses -> Imported_to_dict(self)
      [] OTHER -> HighchartsMeta_to_dict(cls, self)

(***************************************************************************)
(* The keys that each from_dict takes out of the dictionary it is given:  *)
(* every key is read with as_dict.pop.                                     *)
(***************************************************************************)
\* the keys popped by Loading.from_dict
Loading_popped ==
    {"hideDuration", "labelStyle", "showDuration", "style"}

\* the keys popped by ZoomLanguageOptions.from_dict
ZoomLanguageOptions_popped ==
    {"mapZoomIn", "mapZoomOut", "resetZoomButton"}

\* the keys popped by RangeSelectorLanguageOptions.from_dict
RangeSelectorLanguageOptions_popped ==
    {"clickButtonAnnouncement", "dropdownLabel", "maxInputLabel", "minInputLabel"}

\* the keys popped by DataPointAccessibility.from_dict
DataPointAccessibility_popped ==
    {"description", "enabled"}

\* the keys popped by Separator.from_dict
Separator_popped ==
    {"style", "text"}

\* the keys popped by BreadcrumbOptions.from_dict
BreadcrumbOptions_popped ==
    {"buttonSpacing", "buttonTheme", "events", "floating", "format", "formatter",
     "position", "relativeTo", "rtl", "separator", "showFullPath", "style", "useHTML",
     "zIndex"}

\* the keys popped by ResetZoomButtonOptions.from_dict
ResetZoomButtonOptions_popped ==
    {"position", "relativeTo", "theme"}

\* the keys popped by SeriesNavigation.from_dict
SeriesNavigation_popped ==
    {"mode", "pointNavigationEnabledThreshold", "rememberPointFocus", "skipNullPoints"}

\* the keys popped by DialOptions.from_dict
DialOptions_popped ==
    {"backgroundColor", "baseLength", "baseWidth", "borderColor", "borderWidth", "path",
     "radius", "rearLength", "topWidth"}

\* the keys popped by PivotOptions.from_dict
PivotOptions_popped ==
    {"backgroundColor", "borderColor", "borderWidth", "radius"}

\* the keys popped by GaugeOptions._get_kwargs_from_dict
GaugeOptions_popped ==
    {"accessibility", "allowPointSelect", "animation", "className", "clip", "color",
     "cursor", "custom", "dashStyle", "dataLabels", "description",
     "enableMouseTracking", "events", "includeInDataExport", "keys", "label",
     "linkedTo", "marker", "onPoint", "opacity", "point", "pointDescriptionFormatter",
     "selected", "showCheckbox", "showInLegend", "skipKeyboardNavigation", "states",
     "stickyTracking", "threshold", "tooltip", "turboThreshold", "visible",
     "colorIndex", "crisp", "linecap", "lineWidth", "pointInterval",
     "pointIntervalUnit", "pointPlacement", "relativeXValue", "shadow", "dial",
     "overshoot", "pivot", "wrap"}

\* the keys popped by SolidGauge._get_kwargs_from_dict
SolidGauge_popped ==
    {"accessibility", "allowPointSelect", "animation", "className", "clip", "color",
     "cursor", "custom", "dashStyle", "dataLabels", "description",
     "enableMouseTracking", "events", "includeInDataExport", "keys", "label",
     "linkedTo", "marker", "onPoint", "opacity", "point", "pointDescriptionFormatter",
     "selected", "showCheckbox", "showInLegend", "skipKeyboardNavigation", "states",
     "threshold", "tooltip", "turboThreshold", "visible", "animationLimit",
     "boostBlending", "boostThreshold", "colorAxis", "colorIndex", "colorKey",
     "connectEnds", "connectNulls", "crisp", "cropThreshold", "dataSorting", "dragDrop",
     "findNearestPointBy", "getExtremesForAll", "linecap", "lineWidth", "negativeColor",
     "pointInterval", "pointIntervalUnit", "pointPlacement", "pointStart",
     "relativeXValue", "shadow", "softThreshold", "stacking", "step", "zoneAxis",
     "zones", "innerRadius", "overshoot", "radius", "rounded"}

\* the keys popped by VectorData._get_kwargs_from_dict
VectorData_popped ==
    {"accessibility", "className", "color", "colorIndex", "custom", "description",
     "events", "id", "labelrank", "name", "selected", "dataLabels", "dragDrop",
     "drilldown", "marker", "x", "y", "direction", "length"}

\* the keys popped by ConnectionData._get_kwargs_from_dict
ConnectionData_popped ==
    {"accessibility", "className", "color", "colorIndex", "custom", "description",
     "events", "id", "labelrank", "name", "selected", "dataLabels", "dragDrop", "from",
     "to"}

popped(cls) ==
    CASE cls = "Loading" -> Loading_popped
      [] cls = "ZoomLanguageOptions" -> ZoomLanguageOptions_popped
      [] cls = "RangeSelectorLanguageOptions" -> RangeSelectorLanguageOptions_popped
      [] cls = "DataPointAccessibility" -> DataPointAccessibility_popped
      [] cls = "Separator" -> Separator_popped
      [] cls = "BreadcrumbOptions" -> BreadcrumbOptions_popped
      [] cls = "ResetZoomButtonOptions" -> ResetZoomButtonOptions_popped
      [] cls = "SeriesNavigation" -> SeriesNavigation_popped
      [] cls = "DialOptions" -> DialOptions_popped
      [] cls = "PivotOptions" -> PivotOptions_popped
      [] cls = "GaugeOptions" -> GaugeOptions_popped
      [] cls = "SolidGauge" -> SolidGauge_popped
      [] cls = "VectorData" -> VectorData_popped
      [] cls = "ConnectionData" -> ConnectionData_popped

(***************************************************************************)
(* The inputs.  Props(cls) are the properties of the class that are        *)
(* assigned and read, Keys(cls) the keys its from_dict is given, with the  *)
(* kind of value each is documented to take; Samples(kind) are the values  *)
(* tried, valid and invalid.                                               *)
(***************************************************************************)
MaxCalls == 2

str_abc == <<"a", "b", "c">>
str_80pct == <<"8", "0", "%">>
str_80 == <<"8", "0">>
str_CHART == <<"C", "H", "A", "R", "T">>
str_middle == <<"m", "i", "d", "d", "l", "e">>
str_SERIALIZE == <<"S", "E", "R", "I", "A", "L", "I", "Z", "E">>
str_Normal == <<"N", "o", "r", "m", "a", "l">>
str_hex == <<"#", "0", "0", "0">>

a_style == PyDict([color |-> PyStr(str_hex)])
a_gradient == PyDict([linearGradient |-> PyDict([x1 |-> PyInt(0), x2 |-> PyInt(1)]),
                      stops |-> PyList(<<PyList(<<PyInt(0), PyStr(str_hex)>>)>>)])
a_pattern == PyDict([patternOptions |-> PyDict([width |-> PyInt(3)])])
\* a dictionary and a str that hold both markers
a_gradient_and_pattern ==
    PyDict([linearGradient |-> PyDict([x1 |-> PyInt(0), x2 |-> PyInt(1)]),
            patternOptions |-> PyDict([width |-> PyInt(3)])])
str_both_markers == str_patternOptions \o <<" ">> \o str_linearGradient

Samples(kind) ==
    CASE kind = "int" -> {PyInt(0), PyInt(7), PyInt(-1)}
      [] kind = "num" -> {PyInt(0), PyInt(80), PyInt(-1)}
      [] kind = "number" -> {PyInt(0), PyInt(80)}
      [] kind = "str" -> {PyStr(str_abc), PyStr(<<>>)}
      [] kind = "bool" -> {PyNone, PyTrue, PyFalse}
      [] kind = "dict" -> {a_style, PyDict(EmptyDict)}
      [] kind = "list" -> {PyList(<<PyInt(1), PyInt(2)>>), PyList(<<>>)}
      [] kind = "relative_to" ->
           {PyStr(str_plot), PyStr(str_CHART), PyStr(str_plotBox),
            PyStr(str_spacingBox), PyStr(str_middle)}
      [] kind = "mode" ->
           {PyStr(str_normal), PyStr(str_serialize), PyStr(str_SERIALIZE),
            PyStr(str_Normal), PyStr(str_middle), PyStr(<<>>), PyNone, PyInt(5)}
      [] kind = "threshold" -> {PyFalse, PyTrue, PyInt(5), PyNone}
      [] kind = "percentage" -> {PyStr(str_80pct), PyStr(str_80)}
      [] kind = "percentage_or_number" ->
           {PyStr(str_80pct), PyStr(str_80), PyInt(80), PyFloat(80), PyInt(0),
            PyInt(-1)}
      [] kind = "color" ->
           {a_gradient, PyStr(str_hex), PyList(<<PyInt(1)>>), PyInt(5),
            a_pattern, a_gradient_and_pattern, PyStr(str_both_markers),
            PyObj("Pattern", [_fields |-> a_pattern])}
      [] kind = "node" -> {PyDict([x |-> PyInt(1)]), PyInt(5)}
      [] kind = "Separator" ->
           {PyDict([text |-> PyStr(str_abc)]),
            PyDict([text |-> PyStr(str_abc), style |-> a_style]), PyInt(5)}
      [] kind = "DialOptions" ->
           {PyDict([radius |-> PyStr(str_80pct)]),
            PyDict([radius |-> PyStr(str_80pct), topWidth |-> PyInt(1)])}
      [] kind = "PivotOptions" -> {PyDict([radius |-> PyInt(5)]), PyInt(5)}
      [] kind = "shadow" -> {PyNone, PyTrue, PyFalse, PyDict([width |-> PyInt(3)])}

\* a key that no from_dict reads
UnknownKeys == {"unknownKey"}

\* <<property, external key, kind>> of the own fields, as the classes document them
Fields(cls) ==
    CASE cls = "Loading" ->
           {<<"hide_duration", "hideDuration", "int">>,
            <<"label_style", "labelStyle", "str">>,
            <<"show_duration", "showDuration", "int">>,
            <<"style", "style", "str">>}
      [] cls = "ZoomLanguageOptions" ->
           {<<"map_zoom_in", "mapZoomIn", "str">>,
            <<"map_zoom_out", "mapZoomOut", "str">>,
            <<"reset_zoom_button", "resetZoomButton", "str">>}
      [] cls = "RangeSelectorLanguageOptions" ->
           {<<"click_button_announcement", "clickButtonAnnouncement", "str">>,
            <<"dropdown_label", "dropdownLabel", "str">>,
            <<"max_input_label", "maxInputLabel", "str">>,
            <<"min_input_label", "minInputLabel", "str">>}
      [] cls = "DataPointAccessibility" ->
           {<<"description", "description", "str">>,
            <<"enabled", "enabled", "bool">>}
      [] cls = "Separator" ->
           {<<"style", "style", "dict">>, <<"text", "text", "str">>}
      [] cls = "BreadcrumbOptions" ->
           {<<"button_spacing", "buttonSpacing", "number">>,
            <<"button_theme", "buttonTheme", "dict">>,
            <<"events", "events", "node">>,
            <<"floating", "floating", "bool">>,
            <<"format", "format", "str">>,
            <<"formatter", "formatter", "str">>,
            <<"position", "position", "node">>,
            <<"relative_to", "relativeTo", "relative_to">>,
            <<"rtl", "rtl", "bool">>,
            <<"separator", "separator", "Separator">>,
            <<"show_full_path", "showFullPath", "bool">>,
            <<"style", "style", "dict">>,
            <<"use_html", "useHTML", "bool">>,
            <<"z_index", "zIndex", "int">>}
      [] cls = "ResetZoomButtonOptions" ->
           {<<"position", "position", "node">>,
            <<"relative_to", "relativeTo", "relative_to">>,
            <<"theme", "theme", "dict">>}
      [] cls = "SeriesNavigation" ->
           {<<"mode", "mode", "mode">>,
            <<"point_navigation_enabled_threshold", "pointNavigationEnabledThreshold",
              "threshold">>,
            <<"remember_point_focus", "rememberPointFocus", "bool">>,
            <<"skip_null_points", "skipNullPoints", "bool">>}
      [] cls = "DialOptions" ->
           {<<"background_color", "backgroundColor", "color">>,
            <<"base_length", "baseLength", "percentage">>,
            <<"base_width", "baseWidth", "num">>,
            <<"border_color", "borderColor", "color">>,
            <<"border_width", "borderWidth", "num">>,
            <<"path", "path", "list">>,
            <<"radius", "radius", "percentage">>,
            <<"rear_length", "rearLength", "percentage">>,
            <<"top_width", "topWidth", "num">>}
      [] cls = "PivotOptions" ->
           {<<"background_color", "backgroundColor", "color">>,
            <<"border_color", "borderColor", "color">>,
            <<"border_width", "borderWidth", "num">>,
            <<"radius", "radius", "number">>}
      [] cls = "GaugeOptions" ->
           {<<"color_index", "colorIndex", "int">>,
            <<"crisp", "crisp", "bool">>,
            <<"dial", "dial", "DialOptions">>,
            <<"linecap", "linecap", "str">>,
            <<"line_width", "lineWidth", "num">>,
            <<"overshoot", "overshoot", "num">>,
            <<"pivot", "pivot", "PivotOptions">>,
            <<"point_interval", "pointInterval", "num">>,
            <<"point_interval_unit", "pointIntervalUnit", "str">>,
            <<"point_start", "pointStart", "number">>,
            <<"relative_x_value", "relativeXValue", "bool">>,
            <<"shadow", "shadow", "shadow">>,
            <<"wrap", "wrap", "bool">>}
      [] cls = "SolidGauge" ->
           {<<"inner_radius", "innerRadius", "percentage_or_number">>,
            <<"overshoot", "overshoot", "num">>,
            <<"radius", "radius", "percentage_or_number">>,
            <<"rounded", "rounded", "bool">>}
      [] cls = "VectorData" ->
           {<<"direction", "direction", "number">>,
            <<"length", "length", "number">>,
            <<"x", "x", "number">>,
            <<"y", "y", "number">>,
            <<"class_name", "className", "str">>,
            <<"selected", "selected", "bool">>}
      [] cls = "ConnectionData" ->
           {<<"data_labels", "dataLabels", "node">>,
            <<"drag_drop", "dragDrop", "node">>,
            <<"from_", "from", "str">>,
            <<"to", "to", "str">>,
            <<"class_name", "className", "str">>,
            <<"selected", "selected", "bool">>}

(***************************************************************************)
(* The state: one node of one class and its caller.                        *)
(***************************************************************************)
VARIABLES
    cls,      \* the class of the node
    self,     \* the node, PyObj(cls, its instance dictionary); PyNone when there is none
    as_dict,  \* the caller's dictionary, as the calls have left it
    given,    \* the dictionary that the node was built from, as it was given
    built,    \* how the node was built: "none", "init", "from_dict", "round_trip"
    op,       \* the last call: its name, the property and the value it was given
    ret,      \* what the last call returned
    exc,      \* the class of the exception the last call raised, or "none"
    touched,  \* the properties the caller has assigned, by key or by setter
    calls     \* the number of keys and properties assigned so far

vars == <<cls, self, as_dict, given, built, op, ret, exc, touched, calls>>

Call(name, prop, arg) == [name |-> name, prop |-> prop, arg |-> arg]

InitIn(classes) ==
    /\ cls \in classes
    /\ self = PyNone
    /\ as_dict = PyDict(EmptyDict)
    /\ given = PyNone
    /\ built = "none"
    /\ op = Call("start", "", PyNone)
    /\ ret = PyNone
    /\ exc = "none"
    /\ touched = {}
    /\ calls = 0

Init == InitIn(Classes)

\* the caller writes as_dict[key] = value
Put ==
    /\ self = PyNone
    /\ op.name \in {"start", "put"}
    /\ calls < MaxCalls
    /\ \E f \in Fields(cls) : \E value \in Samples(f[3]) :
         /\ f[2] \notin DOMAIN as_dict.v
         /\ as_dict' = PyDict(SetAttr(as_dict.v, f[2], value))
         /\ op' = Call("put", f[2], value)
         /\ touched' = touched \cup {f[1]}
    /\ calls' = calls + 1
    /\ UNCHANGED <<cls, self, given, built, ret, exc>>

\* the caller writes as_dict[key] = value under a key that no class reads
PutUnknown ==
    /\ self = PyNone
    /\ op.name \in {"start", "put"}
    /\ calls < MaxCalls
    /\ \E key \in UnknownKeys :
         /\ key \notin DOMAIN as_dict.v
         /\ as_dict' = PyDict(SetAttr(as_dict.v, key, PyStr(str_abc)))
         /\ op' = Call("put", key, PyStr(str_abc))
    /\ calls' = calls + 1
    /\ UNCHANGED <<cls, self, given, built, ret, exc, touched>>

\* cls()
Construct ==
    /\ op.name = "start"
    /\ \E r \in {new(cls, EmptyDict)} :
           /\ self' = IF Raised(r) THEN PyNone ELSE PyObj(cls, r.val)
           /\ exc' = r.exc
    /\ built' = "init"
    /\ op' = Call("init", "", PyNone)
    /\ ret' = PyNone
    /\ UNCHANGED <<cls, as_dict, given, touched, calls>>

\* cls.from_dict(as_dict)
FromDict ==
    /\ op.name \in {"start", "put"}
    /\ \E r \in {from_dict(cls, as_dict.v)} :
           /\ self' = IF Raised(r) THEN PyNone ELSE PyObj(cls, r.val)
           /\ exc' = r.exc
    /\ given' = as_dict
    /\ as_dict' = PyDict(Without(as_dict.v, popped(cls)))
    /\ built' = "from_dict"
    /\ op' = Call("from_dict", "", PyNone)
    /\ ret' = PyNone
    /\ UNCHANGED <<cls, touched, calls>>

\* self.<prop> = value
Set ==
    /\ self # PyNone
    /\ built # "round_trip"
    /\ calls < MaxCalls
    /\ \E f \in Fields(cls) : \E value \in Samples(f[3]) :
         \E r \in {setattr(cls, self.v.attrs, f[1], value)} :
             /\ self' = PyObj(cls, r.val)
             /\ exc' = r.exc
             /\ op' = Call("set", f[1], value)
             /\ touched' = touched \cup {f[1]}
    /\ ret' = PyNone
    /\ calls' = calls + 1
    /\ UNCHANGED <<cls, as_dict, given, built>>

\* self.<prop>, of a fresh node or of a property the caller has assigned
Get ==
    /\ self # PyNone
    /\ built # "round_trip"
    /\ \E f \in Fields(cls) :
         /\ touched = {} \/ f[1] \in touched
         /\ \E r \in {getattr(cls, self.v.attrs, f[1])} :
                /\ ret' = r.val
                /\ exc' = r.exc
                /\ op' = Call("get", f[1], PyNone)
    /\ UNCHANGED <<cls, self, as_dict, given, built, touched, calls>>

\* self.to_dict()
ToDict ==
    /\ self # PyNone
    /\ op.name # "to_dict"
    /\ \E r \in {to_dict(cls, self.v.attrs)} :
           /\ ret' = r.val
           /\ exc' = r.exc
    /\ op' = Call("to_dict", "", PyNone)
    /\ UNCHANGED <<cls, self, as_dict, given, built, touched, calls>>

\* cls.from_dict(self.to_dict()), on the dictionary that to_dict has just returned
RoundTrip ==
    /\ op.name = "to_dict"
    /\ exc = "none"
    /\ built # "round_trip"
    /\ \E r \in {from_dict(cls, ret.v)} :
           /\ self' = IF Raised(r) THEN PyNone ELSE PyObj(cls, r.val)
           /\ exc' = r.exc
    /\ given' = ret
    /\ as_dict' = PyDict(Without(ret.v, popped(cls)))
    /\ built' = "round_trip"
    /\ op' = Call("from_dict", "", PyNone)
    /\ ret' = PyNone
    /\ UNCHANGED <<cls, touched, calls>>

Next == Put \/ PutUnknown \/ Construct \/ FromDict \/ Set \/ Get \/ ToDict \/ RoundTrip

Spec == Init /\ [][Next]_vars

\* the same machine on the classes of one family
AccessibilityClasses == {"SeriesNavigation", "DataPointAccessibility",
                         "ZoomLanguageOptions", "RangeSelectorLanguageOptions"}
BreadcrumbClasses == {"BreadcrumbOptions", "Separator", "ResetZoomButtonOptions"}
GaugeClasses == {"GaugeOptions", "SolidGauge", "DialOptions", "PivotOptions"}
DataClasses == {"VectorData", "ConnectionData", "DataPointAccessibility"}

SpecFlat == InitIn(FlatClasses) /\ [][Next]_vars
SpecAccessibility == InitIn(AccessibilityClasses) /\ [][Next]_vars
SpecBreadcrumb == InitIn(BreadcrumbClasses) /\ [][Next]_vars
SpecGauge == InitIn(GaugeClasses) /\ [][Next]_vars
SpecData == InitIn(DataClasses) /\ [][Next]_vars

(***************************************************************************)
(* from_setter as a machine of its own: the value is drawn when the run    *)
(* starts, held in `given`, and the one call turns it into the list `ret`. *)
(***************************************************************************)
MaxItems == 2

SetterClasses == {"VectorData", "ConnectionData"}

from_setter(c, value) ==
    IF c = "VectorData" THEN VectorData_from_setter(value)
    ELSE ConnectionData_from_setter(value)

\* the items tried: positional sequences of 4 and 3 numbers, None and the
\* sentinel, a dictionary and an instance of the class, and a sequence of 2
Positional4 == {PyList(<<PyInt(1), PyInt(2), PyInt(3), PyInt(4)>>),
                PyList(<<PyInt(5), PyInt(6), PyInt(7), PyInt(8)>>)}
Positional3 == {PyList(<<PyInt(2), PyInt(3), PyInt(4)>>)}
Placeholders == {PyNone, EnforcedNull}
SetterDict(c) ==
    IF c = "VectorData" THEN PyDict([x |-> PyInt(1)])
    ELSE PyDict([to |-> PyStr(str_abc)])
SetterInstance(c) == PyObj(c, from_dict(c, SetterDict(c).v).val)
SetterItems(c) ==
    Positional4 \cup Positional3 \cup Placeholders
        \cup {SetterDict(c), SetterInstance(c), PyList(<<PyInt(1), PyInt(2)>>)}

\* a sequence of at most MaxItems items, or one value that is no sequence of items
SetterInputs(c) ==
    {PyList(q) : q \in UNION {[1..n -> SetterItems(c)] : n \in 0..MaxItems}}
        \cup SetterItems(c) \cup {PyInt(5)}

InitSetter ==
    /\ cls \in SetterClasses
    /\ given \in SetterInputs(cls)
    /\ self = PyNone
    /\ as_dict = PyDict(EmptyDict)
    /\ built = "none"
    /\ op = Call("start", "", PyNone)
    /\ ret = PyNone
    /\ exc = "none"
    /\ touched = {}
    /\ calls = 0

\* cls.from_setter(value)
FromSetter ==
    /\ op.name = "start"
    /\ \E r \in {from_setter(cls, given)} :
           /\ ret' = r.val
           /\ exc' = r.exc
    /\ op' = Call("from_setter", "", given)
    /\ UNCHANGED <<cls, self, as_dict, given, built, touched, calls>>

NextSetter == FromSetter

SpecSetter == InitSetter /\ [][NextSetter]_vars

(***************************************************************************)
(* from_js_literal.  A literal is the sequence of its tokens; the parser   *)
(* turns the tokens of an object literal into the dictionary of primitive  *)
(* values, and from_dict builds the node from it.                          *)
(***************************************************************************)
LBrace == [tok |-> "{", key |-> "", text |-> <<>>]
RBrace == [tok |-> "}", key |-> "", text |-> <<>>]
Colon == [tok |-> ":", key |-> "", text |-> <<>>]
Comma == [tok |-> ",", key |-> "", text |-> <<>>]

\* the primitive value of a value token
token_value(token) ==
    CASE token.tok = "string" -> PyStr(token.text)
      [] token.tok = "number" -> PyInt(FloatOf(token.text))
      [] token.tok = "true" -> PyTrue
      [] token.tok = "false" -> PyFalse
      [] token.tok = "null" -> PyNone

ValueTokens == {"string", "number", "true", "false", "null"}

\* `{`, then key : value groups separated by commas, then `}`
is_object_literal(tokens) ==
    /\ Len(tokens) >= 2
    /\ tokens[1] = LBrace
    /\ tokens[Len(tokens)] = RBrace
    /\ Len(tokens) = 2 \/ Len(tokens) % 4 = 1
    /\ \A i \in 2..(Len(tokens) - 1) :
         CASE (i - 2) % 4 = 0 -> tokens[i].tok = "key"
           [] (i - 2) % 4 = 1 -> tokens[i] = Colon
           [] (i - 2) % 4 = 2 ->
                /\ tokens[i].tok \in ValueTokens
                /\ tokens[i].tok = "number" => IsNumeric(tokens[i].text)
           [] OTHER -> tokens[i] = Comma

\* the dictionary of an object literal: the last value of a key written twice
literal_dict(tokens) ==
    LET at == {i \in 2..Len(tokens) : tokens[i].tok = "key"}
        last(k) == CHOOSE i \in at :
                       /\ tokens[i].key = k
                       /\ \A j \in at : tokens[j].key = k => j <= i
    IN  [k \in {tokens[i].key : i \in at} |-> token_value(tokens[last(k) + 2])]

\* the parser that takes a literal without its closing brace
parse_literal_unclosed(tokens) ==
    IF is_object_literal(tokens) THEN Ok(literal_dict(tokens))
    ELSE IF is_object_literal(Append(tokens, RBrace))
    THEN Ok(literal_dict(Append(tokens, RBrace)))
    ELSE Raise("HighchartsParseError")

\* the parser: HighchartsParseError for what is no object literal
parse_literal(tokens) ==
    IF is_object_literal(tokens) THEN Ok(literal_dict(tokens))
    ELSE Raise("HighchartsParseError")

\* cls.from_js_literal(as_str_or_file): the text of the file when a file is
\* given, then the parser, then cls.from_dict
from_js_literal(c, as_str_or_file) ==
    IF Raised(parse_literal(as_str_or_file.v.text))
    THEN parse_literal(as_str_or_file.v.text)
    ELSE from_dict(c, parse_literal(as_str_or_file.v.text).val)

(***************************************************************************)
(* from_js_literal as a machine of its own: a literal of at most MaxPairs  *)
(* key : value pairs is written when the run starts, whole or damaged, as  *)
(* a string or in a file; `as_dict` is the dictionary that it denotes and  *)
(* `given` the argument of the call.                                       *)
(***************************************************************************)
MaxPairs == 2

\* str(n) of a number from 0 to 99
int_str(n) ==
    IF n < 10 THEN <<Digits[n + 1]>>
    ELSE <<Digits[(n \div 10) + 1], Digits[(n % 10) + 1]>>

\* the token that a primitive value is written as
token_of(value) ==
    CASE value.t = "str" -> [tok |-> "string", key |-> "", text |-> value.v]
      [] value.t = "int" -> [tok |-> "number", key |-> "", text |-> int_str(value.v)]
      [] value = PyTrue -> [tok |-> "true", key |-> "", text |-> <<>>]
      [] value = PyFalse -> [tok |-> "false", key |-> "", text |-> <<>>]
      [] value = PyNone -> [tok |-> "null", key |-> "", text |-> <<>>]

\* the object literal of a sequence of <<key, value>> pairs
js_literal(pairs) ==
    IF Len(pairs) = 0 THEN <<LBrace, RBrace>>
    ELSE [i \in 1..(4 * Len(pairs) + 1) |->
            IF i = 1 THEN LBrace
            ELSE IF i = 4 * Len(pairs) + 1 THEN RBrace
            ELSE CASE (i - 2) % 4 = 0 ->
                        [tok |-> "key", key |-> pairs[((i - 2) \div 4) + 1][1],
                         text |-> <<>>]
                   [] (i - 2) % 4 = 1 -> Colon
                   [] (i - 2) % 4 = 2 -> token_of(pairs[((i - 2) \div 4) + 1][2])
                   [] OTHER -> Comma]

\* the dictionary that the pairs denote
dict_of(pairs) ==
    [k \in {pairs[i][1] : i \in DOMAIN pairs} |->
        pairs[CHOOSE i \in DOMAIN pairs :
                  pairs[i][1] = k /\ \A j \in DOMAIN pairs : pairs[j][1] = k => j <= i][2]]

\* the pairs of a class: a key of the class and a primitive value tried for it
LiteralPairs(c) ==
    {<<f[2], value>> : f \in Fields(c),
                       value \in {PyInt(0), PyInt(7), PyStr(str_abc), PyTrue, PyNone}}

\* the literal whole, without its closing brace, and without its opening brace
Damaged(tokens) == {SubSeq(tokens, 1, Len(tokens) - 1), Tail(tokens)}

Literal(as_file, text) == [t |-> "js", v |-> [as_file |-> as_file, text |-> text]]

InitLiteral ==
    /\ cls \in FlatClasses
    /\ \E pairs \in UNION {[1..n -> LiteralPairs(cls)] : n \in 0..MaxPairs} :
         /\ as_dict = PyDict(dict_of(pairs))
         /\ \E as_file \in BOOLEAN :
              \E text \in {js_literal(pairs)} \cup Damaged(js_literal(pairs)) :
                  given = Literal(as_file, text)
    /\ self = PyNone
    /\ built = "none"
    /\ op = Call("start", "", PyNone)
    /\ ret = PyNone
    /\ exc = "none"
    /\ touched = {}
    /\ calls = 0

\* cls.from_js_literal(as_str_or_file)
FromJsLiteral ==
    /\ op.name = "start"
    /\ \E r \in {from_js_literal(cls, given)} :
           /\ self' = IF Raised(r) THEN PyNone ELSE PyObj(cls, r.val)
           /\ exc' = r.exc
    /\ built' = "from_js_literal"
    /\ op' = Call("from_js_literal", "", given)
    /\ UNCHANGED <<cls, as_dict, given, ret, touched, calls>>

NextLiteral == FromJsLiteral

SpecLiteral == InitLiteral /\ [][NextLiteral]_vars

(***************************************************************************)
(* The values that the classes document as valid, in the form in which    *)
(* they are stored: what the claims call valid values.                     *)
(***************************************************************************)
Valid(kind) ==
    CASE kind = "int" -> {PyInt(0), PyInt(7)}
      [] kind = "num" -> {PyInt(0), PyInt(80)}
      [] kind = "number" -> {PyInt(0), PyInt(80)}
      [] kind = "str" -> {PyStr(str_abc)}
      [] kind = "bool" -> {PyTrue, PyFalse}
      [] kind = "dict" -> {a_style}
      [] kind = "list" -> {PyList(<<PyInt(1), PyInt(2)>>)}
      [] kind = "relative_to" -> {PyStr(str_plot), PyStr(str_plotBox), PyStr(str_spacingBox)}
      [] kind = "mode" -> {PyStr(str_normal), PyStr(str_serialize)}
      [] kind = "threshold" -> {PyFalse, PyInt(5)}
      [] kind = "percentage" -> {PyStr(str_80pct)}
      [] kind = "percentage_or_number" -> {PyStr(str_80pct), PyInt(80), PyInt(0)}
      [] kind = "color" -> {a_gradient, PyStr(str_hex)}
      [] kind = "node" -> {PyDict([x |-> PyInt(1)])}
      [] kind = "Separator" ->
           {PyDict([text |-> PyStr(str_abc)]),
            PyDict([text |-> PyStr(str_abc), style |-> a_style])}
      [] kind = "DialOptions" ->
           {PyDict([radius |-> PyStr(str_80pct)]),
            PyDict([radius |-> PyStr(str_80pct), topWidth |-> PyInt(1)])}
      [] kind = "PivotOptions" -> {PyDict([radius |-> PyInt(5)])}
      [] kind = "shadow" -> {PyNone, PyTrue, PyFalse, PyDict([width |-> PyInt(3)])}

\* d gives valid values to documented keys of cls
ValidDict(d) ==
    /\ d # PyNone
    /\ \A k \in DOMAIN d.v : \E f \in Fields(cls) : f[2] = k /\ d.v[k] \in Valid(f[3])

(***************************************************************************)
(* C1.  Round trip of the flat nodes: for a Loading, ZoomLanguageOptions,  *)
(* RangeSelectorLanguageOptions or DataPointAccessibility node n,          *)
(* from_dict(n.to_dict()) does not raise and gives a node whose to_dict()  *)
(* equals n.to_dict().                                                     *)
(***************************************************************************)
C1_FlatRoundTrip ==
    (cls \in FlatClasses /\ built = "round_trip") =>
        /\ exc = "none"
        /\ op.name = "to_dict" => ret = given

\* a Loading node with two fields set has been taken round and gives the same output
C1_Witness ==
    /\ cls = "Loading"
    /\ built = "round_trip"
    /\ op.name = "to_dict"
    /\ ret = given
    /\ ret = PyDict([hideDuration |-> PyInt(7), style |-> PyStr(str_abc)])

\* the kind of value that the property prop of cls is documented to take
KindOf(prop) == (CHOOSE f \in Fields(cls) : f[1] = prop)[3]

\* the node has been built by from_dict from `given` and no setter has been called since
FromGiven ==
    /\ built = "from_dict"
    /\ self # PyNone
    /\ calls = Cardinality(DOMAIN given.v)

(***************************************************************************)
(* C2.  Round trip of BreadcrumbOptions: for a dictionary d of valid       *)
(* values under some of the 14 keys, from_dict(d) does not raise, the      *)
(* to_dict() of the node carries every key of d with the value d gives     *)
(* it, and from_dict of that output gives the same output again.           *)
(***************************************************************************)
C2_BreadcrumbRoundTrip ==
    (cls = "BreadcrumbOptions" /\ ValidDict(given)) =>
        /\ op.name = "from_dict" => exc = "none"
        /\ (op.name = "to_dict" /\ FromGiven) =>
              /\ exc = "none"
              /\ \A k \in DOMAIN given.v : k \in DOMAIN ret.v /\ ret.v[k] = given.v[k]
        /\ (op.name = "to_dict" /\ built = "round_trip") => (exc = "none" /\ ret = given)

(***************************************************************************)
(* C3.  Getter and setter of BreadcrumbOptions and SeriesNavigation: the   *)
(* getter called after a setter call that did not raise returns, without   *)
(* raising and without changing the node, the valid value just assigned.   *)
(***************************************************************************)
C3_GetterReturnsAssigned ==
    [][(/\ cls \in {"BreadcrumbOptions", "SeriesNavigation"}
        /\ op.name = "set" /\ exc = "none"
        /\ KindOf(op.prop) \notin {"node", "Separator"}
        /\ op.arg \in Valid(KindOf(op.prop))
        /\ op'.name = "get" /\ op'.prop = op.prop)
       => (exc' = "none" /\ ret' = op.arg /\ self' = self)]_vars

(***************************************************************************)
(* C4.  SeriesNavigation.from_dict(d).to_dict(), for a valid dictionary d  *)
(* over the four keys, returns without raising a dictionary that maps      *)
(* each of the four keys to the value stored for its field.                *)
(***************************************************************************)
C4_NavigationToDict ==
    (cls = "SeriesNavigation" /\ ValidDict(given) /\ FromGiven /\ op.name = "to_dict") =>
        /\ exc = "none"
        /\ \A f \in Fields(cls) :
              f[2] \in DOMAIN ret.v /\ ret.v[f[2]] = self.v.attrs["_" \o f[1]]

(***************************************************************************)
(* C5.  Field names of GaugeOptions and SolidGauge map one to one: every   *)
(* own key that from_dict is given with a valid value is emitted by        *)
(* to_dict() of the node under that same key.                              *)
(***************************************************************************)
C5_KeysReadAreKeysEmitted ==
    (/\ cls \in {"GaugeOptions", "SolidGauge"}
     /\ ValidDict(given) /\ FromGiven /\ op.name = "to_dict") =>
        /\ exc = "none"
        /\ \A k \in DOMAIN given.v : k \in DOMAIN ret.v

(***************************************************************************)
(* C6.  DialOptions, PivotOptions, Separator, BreadcrumbOptions and        *)
(* Loading can be constructed with no keyword arguments, and by from_dict  *)
(* of an empty dictionary, without raising, and every field of the node    *)
(* is then unset.                                                          *)
(***************************************************************************)
C6_DefaultConstruction ==
    (/\ cls \in {"DialOptions", "PivotOptions", "Separator", "BreadcrumbOptions", "Loading"}
     /\ \/ op.name = "init"
        \/ op.name = "from_dict" /\ given = PyDict(EmptyDict)) =>
        /\ exc = "none"
        /\ \A f \in Fields(cls) : getattr(cls, self.v.attrs, f[1]) = Ok(PyNone)

(***************************************************************************)
(* C7.  Trimming: the dictionary that to_dict() returns has no key whose   *)
(* value is None, an empty string or an empty collection: an unset field   *)
(* is absent from it.                                                      *)
(***************************************************************************)
EmptySentinels == {PyNone, PyStr(<<>>), PyList(<<>>), PyDict(EmptyDict)}

C7_NoEmptyValueInOutput ==
    (op.name = "to_dict" /\ exc = "none") =>
        \A k \in DOMAIN ret.v : ret.v[k] \notin EmptySentinels

\* a DialOptions node with one field set gives that one key and no other
C7_Witness ==
    /\ cls = "DialOptions"
    /\ self # PyNone
    /\ self.v.attrs["_radius"] = PyNone
    /\ op.name = "to_dict"
    /\ exc = "none"
    /\ ret = PyDict([topWidth |-> PyInt(80)])

(***************************************************************************)
(* C8.  relative_to of ResetZoomButtonOptions and BreadcrumbOptions:       *)
(* assigning 'plot', 'chart', 'plotBox' or 'spacingBox' in any letter case *)
(* is accepted and the value stored is the value given but for its case;   *)
(* assigning any other string raises HighchartsValueError.                 *)
(***************************************************************************)
relative_to_documented == {str_plot, str_chart, str_plotBox, str_spacingBox}

C8_RelativeToEnumeration ==
    (/\ cls \in {"ResetZoomButtonOptions", "BreadcrumbOptions"}
     /\ op.name = "set" /\ op.prop = "relative_to" /\ op.arg.t = "str") =>
        IF \E token \in relative_to_documented : lower(token) = lower(op.arg.v)
        THEN /\ exc = "none"
             /\ self.v.attrs["_relative_to"].t = "str"
             /\ lower(self.v.attrs["_relative_to"].v) = lower(op.arg.v)
        ELSE exc = "HighchartsValueError"

(***************************************************************************)
(* C9.  SeriesNavigation.mode: assigning 'normal' or 'serialize' in any    *)
(* letter case stores the lowercase token; assigning anything else (an     *)
(* other string, an empty string, None) raises and leaves the node as it   *)
(* was; the mode stored is always 'normal' or 'serialize'.                 *)
(***************************************************************************)
C9_ModeEnumeration ==
    [][cls = "SeriesNavigation" =>
         /\ (op'.name = "set" /\ op'.prop = "mode") =>
               IF op'.arg.t = "str" /\ lower(op'.arg.v) \in {str_normal, str_serialize}
               THEN exc' = "none" /\ self'.v.attrs["_mode"] = PyStr(lower(op'.arg.v))
               ELSE exc' # "none" /\ self' = self
         /\ self' # PyNone =>
               self'.v.attrs["_mode"] \in {PyStr(str_normal), PyStr(str_serialize)}]_vars

\* 'SERIALIZE' has been assigned and 'serialize' is stored
C9_Witness ==
    /\ cls = "SeriesNavigation"
    /\ op = Call("set", "mode", PyStr(str_SERIALIZE))
    /\ exc = "none"
    /\ self.v.attrs["_mode"] = PyStr(str_serialize)

(***************************************************************************)
(* C10.  A bare non-negative number (80, 0) assigned to SolidGauge.radius  *)
(* or SolidGauge.inner_radius is accepted and stored as that number.       *)
(***************************************************************************)
C10_BareNumberAccepted ==
    (/\ cls = "SolidGauge"
     /\ op.name = "set" /\ op.prop \in {"radius", "inner_radius"}
     /\ op.arg \in {PyInt(80), PyInt(0)}) =>
        /\ exc = "none"
        /\ self.v.attrs["_" \o op.prop] = op.arg

(***************************************************************************)
(* C11.  A numeric string without '%' ("80") assigned to a percentage      *)
(* field (SolidGauge.radius, inner_radius; DialOptions.radius,             *)
(* base_length, rear_length) raises HighchartsValueError and nothing is    *)
(* stored: the node is as it was.                                          *)
(***************************************************************************)
PercentageFields ==
    [SolidGauge |-> {"radius", "inner_radius"},
     DialOptions |-> {"radius", "base_length", "rear_length"}]

C11_MissingPercentMarker ==
    [][(/\ cls \in DOMAIN PercentageFields
        /\ op'.name = "set" /\ op'.prop \in PercentageFields[cls]
        /\ op'.arg = PyStr(str_80))
       => (exc' = "HighchartsValueError" /\ self' = self)]_vars

(***************************************************************************)
(* C12.  A string with '%' ("80%") assigned to a percentage field is       *)
(* accepted, and the getter then returns the string as it was assigned.    *)
(***************************************************************************)
C12_PercentStringVerbatim ==
    [][(cls \in DOMAIN PercentageFields) =>
         /\ (/\ op'.name = "set" /\ op'.prop \in PercentageFields[cls]
             /\ op'.arg = PyStr(str_80pct))
            => (/\ exc' = "none"
                /\ getattr(cls, self'.v.attrs, op'.prop) = Ok(op'.arg))
         /\ (/\ op.name = "set" /\ op.prop \in PercentageFields[cls]
             /\ op.arg = PyStr(str_80pct)
             /\ op'.name = "get" /\ op'.prop = op.prop)
            => (exc' = "none" /\ ret' = op.arg)]_vars

\* "80%" was assigned to DialOptions.base_length and the getter has returned it
C12_Witness ==
    /\ cls = "DialOptions"
    /\ op = Call("get", "base_length", PyNone)
    /\ touched = {"top_width", "base_length"}
    /\ built = "from_dict"
    /\ given = PyDict([topWidth |-> PyInt(80)])
    /\ exc = "none"
    /\ ret = PyStr(str_80pct)

(***************************************************************************)
(* C13.  A plain colour string with neither 'linearGradient' nor           *)
(* 'patternOptions' in it ('#000') assigned to background_color or         *)
(* border_color of DialOptions or PivotOptions is accepted and stored.     *)
(***************************************************************************)
ColorFields == {"background_color", "border_color"}

C13_PlainColorString ==
    (/\ cls \in {"DialOptions", "PivotOptions"}
     /\ op.name = "set" /\ op.prop \in ColorFields
     /\ op.arg = PyStr(str_hex)) =>
        /\ exc = "none"
        /\ self.v.attrs["_" \o op.prop] = op.arg

(***************************************************************************)
(* C14.  A dictionary with 'linearGradient' and 'stops' assigned to        *)
(* DialOptions.background_color is stored as a Gradient node, never as a   *)
(* string or a dictionary, and to_dict() of the DialOptions node gives     *)
(* under 'backgroundColor' the structure that was assigned.                *)
(***************************************************************************)
C14_GradientResolved ==
    cls = "DialOptions" =>
        /\ (op.name = "set" /\ op.prop = "background_color" /\ op.arg = a_gradient)
           => (/\ exc = "none"
               /\ self.v.attrs["_background_color"] =
                      PyObj("Gradient", [_fields |-> a_gradient]))
        /\ (/\ op.name = "to_dict"
            /\ self.v.attrs["_background_color"] = PyObj("Gradient", [_fields |-> a_gradient]))
           => (/\ exc = "none"
               /\ "backgroundColor" \in DOMAIN ret.v
               /\ ret.v["backgroundColor"] = a_gradient)

\* the gradient was assigned by the setter and to_dict has given it back
C14_Witness ==
    /\ cls = "DialOptions"
    /\ touched = {"top_width", "background_color"}
    /\ given = PyDict([topWidth |-> PyInt(80)])
    /\ op.name = "to_dict"
    /\ exc = "none"
    /\ ret = PyDict([topWidth |-> PyInt(80), backgroundColor |-> a_gradient])

(***************************************************************************)
(* C15.  A non-empty value that is no Gradient, no Pattern, no string and  *)
(* no dictionary with a gradient or pattern key (a non-empty list, a       *)
(* number other than 0) assigned to background_color or border_color       *)
(* raises HighchartsValueError.                                            *)
(***************************************************************************)
C15_UnresolvableColor ==
    (/\ cls \in {"DialOptions", "PivotOptions"}
     /\ op.name = "set" /\ op.prop \in ColorFields
     /\ op.arg \in {PyList(<<PyInt(1)>>), PyInt(5)}) =>
        exc = "HighchartsValueError"

\* a list was assigned to PivotOptions.border_color and the setter raised
C15_Witness ==
    /\ cls = "PivotOptions"
    /\ op = Call("set", "border_color", PyList(<<PyInt(1)>>))
    /\ exc = "HighchartsValueError"
    /\ self.v.attrs["_border_color"] = PyNone


(***************************************************************************)
(* C16.  Unknown keys: from_dict of a dictionary that holds a key the      *)
(* class does not read ends as from_dict of the dictionary without that    *)
(* key, with the same node or the same exception, and the key is absent    *)
(* from the to_dict() of the node.                                         *)
(***************************************************************************)
GivenUnknown ==
    /\ built = "from_dict"
    /\ given # PyNone
    /\ UnknownKeys \cap DOMAIN given.v # {}

C16_UnknownKeysIgnored ==
    /\ (GivenUnknown /\ op.name = "from_dict") =>
           \E r \in {from_dict(cls, Without(given.v, UnknownKeys))} :
               /\ exc = r.exc
               /\ exc = "none" => self = PyObj(cls, r.val)
    /\ (GivenUnknown /\ op.name = "to_dict" /\ exc = "none") =>
           UnknownKeys \cap DOMAIN ret.v = {}

\* a ZoomLanguageOptions node built from a known and an unknown key
C16_Witness ==
    /\ cls = "ZoomLanguageOptions"
    /\ given = PyDict([unknownKey |-> PyStr(str_abc), mapZoomIn |-> PyStr(str_abc)])
    /\ built = "from_dict"
    /\ op.name = "to_dict"
    /\ exc = "none"
    /\ ret = PyDict([mapZoomIn |-> PyStr(str_abc)])

(***************************************************************************)
(* C17.  from_dict leaves the dictionary of the caller unchanged: after    *)
(* the call the dictionary holds the keys and values it held before.       *)
(***************************************************************************)
C17_InputDictUnchanged ==
    op.name = "from_dict" => as_dict = given

(***************************************************************************)
(* C18.  Vector positional coercion: VectorData.from_setter of a sequence  *)
(* of positional sequences of 4 elements returns a list of the same length *)
(* in which node i has x, y, length and direction equal to elements 0, 1,  *)
(* 2 and 3 of item i.                                                      *)
(***************************************************************************)
C18_VectorPositional ==
    (/\ cls = "VectorData"
     /\ op.name = "from_setter"
     /\ op.arg.t = "list"
     /\ \A i \in DOMAIN op.arg.v : op.arg.v[i] \in Positional4)
    => /\ exc = "none"
       /\ ret.t = "list"
       /\ Len(ret.v) = Len(op.arg.v)
       /\ \A i \in DOMAIN op.arg.v :
            /\ ret.v[i].t = "obj"
            /\ ret.v[i].v.cls = "VectorData"
            /\ VectorData_get(ret.v[i].v.attrs, "x") = Ok(op.arg.v[i].v[1])
            /\ VectorData_get(ret.v[i].v.attrs, "y") = Ok(op.arg.v[i].v[2])
            /\ VectorData_get(ret.v[i].v.attrs, "length") = Ok(op.arg.v[i].v[3])
            /\ VectorData_get(ret.v[i].v.attrs, "direction") = Ok(op.arg.v[i].v[4])

\* from_setter([[1, 2, 3, 4], [5, 6, 7, 8]]) has returned its two nodes
C18_Witness ==
    /\ cls = "VectorData"
    /\ op = Call("from_setter", "",
                 PyList(<<PyList(<<PyInt(1), PyInt(2), PyInt(3), PyInt(4)>>),
                          PyList(<<PyInt(5), PyInt(6), PyInt(7), PyInt(8)>>)>>))
    /\ exc = "none"
    /\ Len(ret.v) = 2
    /\ ret.v[1].v.attrs["_x"] = PyInt(1)
    /\ ret.v[1].v.attrs["_direction"] = PyInt(4)
    /\ ret.v[2].v.attrs["_y"] = PyInt(6)
    /\ ret.v[2].v.attrs["_length"] = PyInt(7)

(***************************************************************************)
(* C19.  Single-item coercion: from_setter of one item that is not wrapped *)
(* in a sequence returns a list of one node: of an instance of the class   *)
(* the instance itself, of one dictionary the node that from_dict builds   *)
(* from it.                                                                *)
(***************************************************************************)
C19_SingleItem ==
    /\ (op.name = "from_setter" /\ op.arg = SetterInstance(cls))
           => (exc = "none" /\ ret = PyList(<<op.arg>>))
    /\ (op.name = "from_setter" /\ op.arg = SetterDict(cls))
           => /\ exc = "none"
              /\ ret = PyList(<<PyObj(cls, from_dict(cls, op.arg.v).val)>>)

(***************************************************************************)
(* C20.  The null placeholder keeps the slot: from_setter of a sequence    *)
(* whose items are all coercible returns a list of the same length, item i *)
(* of which is the node of item i of the input, and the node at the place  *)
(* of a None or of the sentinel has every field unset.                     *)
(***************************************************************************)
Coercible(c) ==
    IF c = "VectorData"
    THEN Positional4 \cup Positional3 \cup Placeholders
             \cup {SetterDict(c), SetterInstance(c)}
    ELSE Placeholders \cup {SetterDict(c), SetterInstance(c)}

C20_NullKeepsSlot ==
    (/\ op.name = "from_setter"
     /\ op.arg.t = "list"
     /\ \A i \in DOMAIN op.arg.v : op.arg.v[i] \in Coercible(cls))
    => /\ exc = "none"
       /\ ret.t = "list"
       /\ Len(ret.v) = Len(op.arg.v)
       /\ \A i \in DOMAIN op.arg.v :
            /\ ret.v[i].t = "obj"
            /\ ret.v[i].v.cls = cls
            /\ ret.v[i] = from_setter(cls, PyList(<<op.arg.v[i]>>)).val.v[1]
            /\ op.arg.v[i] \in Placeholders =>
                   \A a \in DOMAIN ret.v[i].v.attrs : ret.v[i].v.attrs[a] = PyNone

\* a sentinel between two nodes has become the empty node in the middle
C20_Witness ==
    /\ cls \in SetterClasses
    /\ op.name = "from_setter"
    /\ op.arg = PyList(<<SetterInstance(cls), EnforcedNull>>)
    /\ exc = "none"
    /\ Len(ret.v) = 2
    /\ ret.v[1] = SetterInstance(cls)
    /\ ret.v[2] = PyObj(cls, new(cls, EmptyDict).val)

(***************************************************************************)
(* C21.  List coercion failure: from_setter of a value one item of which   *)
(* is a bare number or a sequence of 2 elements raises the error of a      *)
(* failed conversion, HighchartsValueError, and returns no list.           *)
(***************************************************************************)
NotCoercible(item) ==
    \/ item.t = "int"
    \/ item.t = "list" /\ Len(item.v) \notin {3, 4}

C21_UncoercibleItem ==
    (/\ op.name = "from_setter"
     /\ \/ op.arg.t = "int" /\ op.arg.v # 0
        \/ /\ op.arg.t = "list"
           /\ \E i \in DOMAIN op.arg.v : NotCoercible(op.arg.v[i]))
    => (exc = "HighchartsValueError" /\ ret = PyNone)

(***************************************************************************)
(* C22.  Range invariant: a numeric field declared non-negative holds None *)
(* or a number >= 0 in every node, and the assignment of a negative number *)
(* to it raises the validator's MinimumValueError.                         *)
(***************************************************************************)
NonNegativeFields ==
    [Loading |-> {"hide_duration", "show_duration"},
     GaugeOptions |-> {"color_index", "line_width", "overshoot", "point_interval"},
     DialOptions |-> {"base_width", "border_width"},
     PivotOptions |-> {"border_width"},
     SolidGauge |-> {"overshoot"}]

C22_RangeInvariant ==
    cls \in DOMAIN NonNegativeFields =>
        /\ self # PyNone =>
               \A f \in NonNegativeFields[cls] :
                   \/ self.v.attrs["_" \o f] = PyNone
                   \/ /\ IsNumber(self.v.attrs["_" \o f])
                      /\ NumVal(self.v.attrs["_" \o f]) >= 0
        /\ (/\ op.name = "set"
            /\ op.prop \in NonNegativeFields[cls]
            /\ IsNumber(op.arg)
            /\ NumVal(op.arg) < 0)
           => exc = "MinimumValueError"

\* a negative duration refused after a duration of 7 was stored
C22_Witness ==
    /\ cls = "Loading"
    /\ op = Call("set", "hide_duration", PyInt(-1))
    /\ exc = "MinimumValueError"
    /\ self.v.attrs["_hide_duration"] = PyInt(7)

(***************************************************************************)
(* C23.  State unchanged on error: a setter call that raises leaves every  *)
(* field of the node as it was before the call.                            *)
(***************************************************************************)
C23_UnchangedOnError ==
    [][(op'.name = "set" /\ exc' # "none") => self' = self]_vars

\* SolidGauge.radius has refused -1 and still holds the 80 stored before
C23_Witness ==
    /\ cls = "SolidGauge"
    /\ op = Call("set", "radius", PyInt(-1))
    /\ exc # "none"
    /\ self.v.attrs["_radius"] = PyFloat(80)

(***************************************************************************)
(* C24.  Unset versus disabled: an optional boolean field holds None, True *)
(* or False (GaugeOptions.shadow: or a ShadowOptions node); assigning None *)
(* stores None and assigning False stores False.                           *)
(***************************************************************************)
BooleanFields ==
    [BreadcrumbOptions |-> {"floating", "rtl", "show_full_path", "use_html"},
     DataPointAccessibility |-> {"enabled"},
     GaugeOptions |-> {"crisp", "wrap", "relative_x_value", "shadow"},
     SolidGauge |-> {"rounded"}]

C24_UnsetVersusDisabled ==
    (cls \in DOMAIN BooleanFields /\ self # PyNone) =>
        /\ \A f \in BooleanFields[cls] :
               \/ self.v.attrs["_" \o f] \in {PyNone, PyTrue, PyFalse}
               \/ f = "shadow" /\ self.v.attrs["_" \o f].t = "obj"
        /\ (/\ op.name = "set"
            /\ op.prop \in BooleanFields[cls]
            /\ op.arg \in {PyNone, PyFalse})
           => (exc = "none" /\ self.v.attrs["_" \o op.prop] = op.arg)

\* enabled was given as False and is then assigned None
C24_Witness ==
    /\ cls = "DataPointAccessibility"
    /\ built = "from_dict"
    /\ given = PyDict([enabled |-> PyFalse])
    /\ op = Call("set", "enabled", PyNone)
    /\ exc = "none"
    /\ self.v.attrs["_enabled"] = PyNone

(***************************************************************************)
(* C25.  Nested single node rule of GaugeOptions.dial, GaugeOptions.pivot  *)
(* and BreadcrumbOptions.separator: an instance of the node class is       *)
(* stored as it is, a dictionary is stored as a node of the class, also    *)
(* when it gives some keys of the node only, None is stored as None, and   *)
(* any other value raises HighchartsValueError.                            *)
(***************************************************************************)
NodeFields ==
    [GaugeOptions |-> [dial |-> "DialOptions", pivot |-> "PivotOptions"],
     BreadcrumbOptions |-> [separator |-> "Separator"]]

C25_NestedNodeRule ==
    (/\ cls \in DOMAIN NodeFields
     /\ op.name = "set"
     /\ op.prop \in DOMAIN NodeFields[cls])
    => CASE op.arg.t = "None" ->
              exc = "none" /\ self.v.attrs["_" \o op.prop] = PyNone
         [] op.arg.t = "obj" /\ op.arg.v.cls = NodeFields[cls][op.prop] ->
              exc = "none" /\ self.v.attrs["_" \o op.prop] = op.arg
         [] op.arg.t = "dict" ->
              /\ exc = "none"
              /\ self.v.attrs["_" \o op.prop].t = "obj"
              /\ self.v.attrs["_" \o op.prop].v.cls = NodeFields[cls][op.prop]
         [] OTHER -> exc = "HighchartsValueError"

(***************************************************************************)
(* C26.  Literal parsing: from_js_literal of a valid literal, given as a   *)
(* string or as a file, ends as from_dict of the dictionary that the       *)
(* literal denotes, with the same node or the same exception; of a literal *)
(* that is not valid it raises HighchartsParseError and builds no node.    *)
(***************************************************************************)
\* the literal as it was written, both braces in place
Whole(text) ==
    /\ Len(text) >= 2
    /\ text[1] = LBrace
    /\ text[Len(text)] = RBrace

C27_SolidGaugeToDict ==
    (cls = "SolidGauge" /\ op.name = "to_dict") =>
        /\ exc = "none"
        /\ ret.t = "dict"
        /\ \A k \in DOMAIN ret.v : ret.v[k] # PyNone
        /\ \A f \in Fields(cls) :
               self.v.attrs["_" \o f[1]] # PyNone => f[2] \in DOMAIN ret.v

(***************************************************************************)
(* C28.  Sniffing order of the colour setters: a Gradient or Pattern node  *)
(* is stored as it is; a dictionary with the key 'linearGradient' is       *)
(* stored as a Gradient node and a str that holds 'linearGradient' as the  *)
(* str, whether or not 'patternOptions' is in it too; a dictionary with    *)
(* 'patternOptions' alone is stored as a Pattern node.                     *)
(***************************************************************************)
C28_SniffingOrder ==
    (/\ cls \in {"DialOptions", "PivotOptions"}
     /\ op.name = "set"
     /\ op.prop \in ColorFields
     /\ Truthy(op.arg))
    => CASE op.arg.t = "obj" ->
              exc = "none" /\ self.v.attrs["_" \o op.prop] = op.arg
         [] op.arg.t = "dict" /\ "linearGradient" \in DOMAIN op.arg.v ->
              /\ exc = "none"
              /\ self.v.attrs["_" \o op.prop] = PyObj("Gradient", [_fields |-> op.arg])
         [] op.arg.t = "str" /\ Contains(op.arg.v, str_linearGradient) ->
              exc = "none" /\ self.v.attrs["_" \o op.prop] = op.arg
         [] op.arg.t = "dict" /\ "linearGradient" \notin DOMAIN op.arg.v
                /\ "patternOptions" \in DOMAIN op.arg.v ->
              /\ exc = "none"
              /\ self.v.attrs["_" \o op.prop] = PyObj("Pattern", [_fields |-> op.arg])
         [] OTHER -> TRUE

\* a dictionary with both markers has become a Gradient node
C28_Witness ==
    /\ cls = "PivotOptions"
    /\ op = Call("set", "border_color", a_gradient_and_pattern)
    /\ exc = "none"
    /\ self.v.attrs["_border_color"] = PyObj("Gradient", [_fields |-> a_gradient_and_pattern])

(***************************************************************************)
(* C29.  Construction paths agree: from_dict of the empty dictionary ends  *)
(* as the constructor without keyword arguments does, with a node of the   *)
(* same field values or with the same exception.                           *)
(***************************************************************************)
C29_ConstructionPathsAgree ==
    (op.name = "from_dict" /\ given = PyDict(EmptyDict)) =>
        \E r \in {new(cls, EmptyDict)} :
            /\ exc = r.exc
            /\ exc = "none" => self = PyObj(cls, r.val)

(***************************************************************************)
(* C30.  Setter normalization is idempotent: the assignment to a field of  *)
(* the value that its getter returns succeeds and leaves the node as it    *)
(* is.                                                                     *)
(***************************************************************************)
C30_AssignBack ==
    [][(/\ op'.name = "set"
        /\ self # PyNone
        /\ getattr(cls, self.v.attrs, op'.prop) = Ok(op'.arg))
       => (exc' = "none" /\ self' = self)]_vars

====
